---- MODULE Spec2Model ----
(***************************************************************************)
(* Lehran Engine: the tactical map screen.                                 *)
(*                                                                         *)
(* The model covers MapManager (engine/src/MapManager.cpp), the map branch *)
(* of InputHandler::HandleMapInput (engine/src/InputHandler.cpp) and the   *)
(* map callbacks and title entry "Map Test" of the host (engine/main.cpp). *)
(* Indices are 0-based as in the C++ code, -1 meaning "none"; a TLA+       *)
(* sequence s is read at index i as s[i + 1].                              *)
(***************************************************************************)
EXTENDS Integers, Sequences, FiniteSets, TLC

\* --------------------------------------------------------------------------
\* Bounds of the explored inputs (not program constants)
\* --------------------------------------------------------------------------

\* The two-unit boards are two rows of BoardWidth tiles.
BoardWidth == 3

\* The commanded unit's mov stat ranges over 0..MaxMov.
MaxMov == 2

\* --------------------------------------------------------------------------
\* Program constants
\* --------------------------------------------------------------------------

\* Viewport in pixels, hard-coded in MoveCamera / MoveCursor.
ScreenWidth == 1920

ScreenHeight == 1080

\* MapManager::scale (3.0f), set in the constructor.
Scale == 3

\* "int attackRange = 2; // Default attack range" in CalculateAttackRange.
AttackRange == 2

\* MapUnit() default mov, used when the unit id is not in units.json.
DefaultMov == 5

\* mapData.value("tile_size", 32)
DefaultTileSize == 32

\* --------------------------------------------------------------------------
\* Arithmetic helpers
\* --------------------------------------------------------------------------

\* abs() of <cstdlib>
Abs(n) == IF n < 0 THEN -n ELSE n

\* abs(x1 - x2) + abs(y1 - y2), the distance used by both range calculators
Manhattan(x1, y1, x2, y2) == Abs(x1 - x2) + Abs(y1 - y2)

\* The elements of a sequence
Range(s) == {s[i] : i \in 1..Len(s)}

\* s without its element at 0-based index i (std::vector::erase(begin() + i))
Erase(s, i) == [k \in 1..(Len(s) - 1) |-> IF k <= i THEN s[k] ELSE s[k + 1]]

\* --------------------------------------------------------------------------
\* Reference data files: data/weapons.json and data/classes.json
\* --------------------------------------------------------------------------

\* One weapon record of weapons.json. durability is <<n>> for a number and
\* <<>> for JSON null (an unbreakable weapon).
Weapon(id, name, might, user) ==
    [id |-> id, name |-> name, might |-> might, hit |-> 80, crit |-> 0,
     weight |-> 5, durability |-> IF might > 8 THEN <<>> ELSE <<30>>,
     range |-> <<1>>, user |-> user]

\* weapons.json: partition -> sequence of <<type key, weapon array>> in the
\* key order nlohmann::json iterates an object (sorted by key).
\* "twin" is listed in both generic and prf; "nobody_blade" is a prf record
\* without a user.
WeaponsFile ==
    [generic    |-> << [type |-> "axe",   weapons |-> << Weapon("iron_axe", "Iron Axe", 8, "") >>],
                     [type |-> "sword", weapons |-> << Weapon("iron_sword", "Iron Sword", 5, ""),
                                                       Weapon("twin", "Twin (generic)", 4, "") >>] >>,
     prf        |-> << [type |-> "sword", weapons |-> << Weapon("alvis_blade", "Alvis Blade", 9, "alvis"),
                                                       Weapon("nobody_blade", "Nobody Blade", 7, ""),
                                                       Weapon("twin", "Twin (prf)", 6, "brom") >>] >>,
     attributed |-> << [type |-> "lance", weapons |-> << Weapon("flame_lance", "Flame Lance", 7, "") >>] >>]

\* classes.json: class id -> array whose first element carries the display
\* name and the weapon_types array. Two class ids share the display name
\* "Lord".
ClassesFile ==
    [lord    |-> << [name |-> "Lord",    weapon_types |-> <<"sword">>] >>,
     lord_f  |-> << [name |-> "Lord",    weapon_types |-> <<"lance">>] >>,
     fighter |-> << [name |-> "Fighter", weapon_types |-> <<"axe">>] >>,
     soldier |-> << [name |-> "Soldier", weapon_types |-> <<"lance", "sword">>] >>]

\* A json object that was never loaded (null): contains() is false for every key.
NullJson == [k \in {} |-> <<>>]

\* The json values the members weaponsData and classesData can hold, by name:
\* "null" before any load, else the content of the named data file.
WeaponTable(name) ==
    CASE name = "weapons.json" -> WeaponsFile
      [] name = "generic_only.json" -> [k \in {"generic"} |-> WeaponsFile[k]]
      [] name = "no_generic.json" -> [k \in {"prf", "attributed"} |-> WeaponsFile[k]]
      [] OTHER -> NullJson

ClassTable(name) == IF name = "classes.json" THEN ClassesFile ELSE NullJson

\* --------------------------------------------------------------------------
\* Equipment resolver (pure functions of the loaded tables)
\* --------------------------------------------------------------------------

\* The first record with the given id in one partition, as <<type index,
\* array index>>, scanning the type keys in order and each array in order;
\* <<>> when the partition holds no such record.
FirstMatch(part, weaponId) ==
    LET hits == {tw \in UNION {{<<t, w>> : w \in 1..Len(part[t].weapons)} : t \in 1..Len(part)} :
                    part[tw[1]].weapons[tw[2]].id = weaponId}
    IN  IF hits = {} THEN <<>>
        ELSE CHOOSE h \in hits :
                \A g \in hits : h[1] < g[1] \/ (h[1] = g[1] /\ h[2] <= g[2])

\* The WeaponData filled from a matching json record.
WeaponRecord(weaponId, part, hit, isPRF) ==
    LET w == part[hit[1]].weapons[hit[2]]
    IN  [id |-> weaponId, name |-> w.name, type |-> part[hit[1]].type,
         might |-> w.might, hit |-> w.hit, crit |-> w.crit, weight |-> w.weight,
         durability |-> IF w.durability = <<>> THEN -1 ELSE w.durability[1],
         range |-> w.range,
         user |-> IF isPRF THEN w.user ELSE "",
         isPRF |-> isPRF]

\* A default record that leaves the name empty
DefaultWeaponData_Unnamed(weaponId) ==
    [id |-> weaponId, name |-> "", type |-> "",
     might |-> 0, hit |-> 0, crit |-> 0, weight |-> 0, durability |-> 0,
     range |-> <<>>, user |-> "", isPRF |-> FALSE]

\* WeaponData() with id and name set to the requested id.
DefaultWeaponData(weaponId) ==
    [id |-> weaponId, name |-> weaponId, type |-> "",
     might |-> 0, hit |-> 0, crit |-> 0, weight |-> 0, durability |-> 0,
     range |-> <<>>, user |-> "", isPRF |-> FALSE]

\* GetWeaponData searching prf before generic
GetWeaponData_PrfFirst(wd, weaponId) ==
    IF "prf" \in DOMAIN wd /\ FirstMatch(wd.prf, weaponId) # <<>>
    THEN WeaponRecord(weaponId, wd.prf, FirstMatch(wd.prf, weaponId), TRUE)
    ELSE IF "generic" \in DOMAIN wd /\ FirstMatch(wd.generic, weaponId) # <<>>
    THEN WeaponRecord(weaponId, wd.generic, FirstMatch(wd.generic, weaponId), FALSE)
    ELSE IF "attributed" \in DOMAIN wd /\ FirstMatch(wd.attributed, weaponId) # <<>>
    THEN WeaponRecord(weaponId, wd.attributed, FirstMatch(wd.attributed, weaponId), FALSE)
    ELSE DefaultWeaponData(weaponId)

\* MapManager::GetWeaponData over the table wd
GetWeaponData(wd, weaponId) ==
    IF "generic" \in DOMAIN wd /\ FirstMatch(wd.generic, weaponId) # <<>>
    THEN WeaponRecord(weaponId, wd.generic, FirstMatch(wd.generic, weaponId), FALSE)
    ELSE IF "prf" \in DOMAIN wd /\ FirstMatch(wd.prf, weaponId) # <<>>
    THEN WeaponRecord(weaponId, wd.prf, FirstMatch(wd.prf, weaponId), TRUE)
    ELSE IF "attributed" \in DOMAIN wd /\ FirstMatch(wd.attributed, weaponId) # <<>>
    THEN WeaponRecord(weaponId, wd.attributed, FirstMatch(wd.attributed, weaponId), FALSE)
    ELSE DefaultWeaponData(weaponId)

\* CanUnitWieldWeapon without the ownership test of PRF weapons.
CanUnitWieldWeapon_ClassOnly(cd, unit, weapon) ==
    \E classId \in DOMAIN cd :
        /\ Len(cd[classId]) > 0
        /\ cd[classId][1].name = unit.className
        /\ \E i \in 1..Len(cd[classId][1].weapon_types) :
              cd[classId][1].weapon_types[i] = weapon.type

\* CanUnitWieldWeapon accepting the weapon types of any class.
CanUnitWieldWeapon_AnyClass(cd, unit, weapon) ==
    IF weapon.isPRF /\ weapon.user # ""
    THEN weapon.user = unit.unitId
    ELSE \E classId \in DOMAIN cd :
            /\ Len(cd[classId]) > 0
            /\ \E i \in 1..Len(cd[classId][1].weapon_types) :
                  cd[classId][1].weapon_types[i] = weapon.type

\* MapManager::CanUnitWieldWeapon over the class table cd
CanUnitWieldWeapon(cd, unit, weapon) ==
    IF weapon.isPRF /\ weapon.user # ""
    THEN weapon.user = unit.unitId
    ELSE \E classId \in DOMAIN cd :
            /\ Len(cd[classId]) > 0
            /\ cd[classId][1].name = unit.className
            /\ \E i \in 1..Len(cd[classId][1].weapon_types) :
                  cd[classId][1].weapon_types[i] = weapon.type

\* MapManager::GetClassDisplayName over the class table cd
GetClassDisplayName(cd, classId) ==
    IF classId \in DOMAIN cd /\ Len(cd[classId]) > 0
    THEN cd[classId][1].name
    ELSE classId

\* --------------------------------------------------------------------------
\* The files on disk: maps/Battle/test_map.json merged with data/units.json
\* --------------------------------------------------------------------------

\* data/units.json, keyed by type and then unit id; mov is alvis' mov stat.
UnitsFile(mov) ==
    [player |-> [alvis |-> [class |-> "lord", mov |-> mov,
                            current_inventory |-> <<"iron_sword">>],
                 brom  |-> [class |-> "fighter", mov |-> 1,
                            current_inventory |-> <<"iron_axe">>],
                 celia |-> [class |-> "lord", mov |-> 1,
                            current_inventory |-> <<"iron_sword", "iron_axe", "alvis_blade">>],
                 dara  |-> [class |-> "lord", mov |-> 1,
                            current_inventory |-> <<"iron_sword", "iron_axe", "twin",
                                                    "nobody_blade">>],
                 edda  |-> [class |-> "lord", mov |-> 1,
                            current_inventory |-> <<"iron_axe", "iron_sword">>]],
     enemy  |-> [bandit |-> [class |-> "fighter", mov |-> 1,
                             current_inventory |-> <<"iron_axe">>]]]

\* One entry of the map file's "units" array.
Placement(type, unitId, x, y) == [type |-> type, unit_id |-> unitId, x |-> x, y |-> y]

\* A readable map file with its data files; mov stands for the units.json
\* that gives alvis this mov stat.
MapFile(w, h, placements, mov) ==
    [load |-> "ok", width |-> w, height |-> h, tile_size |-> DefaultTileSize,
     units |-> placements, mov |-> mov,
     weapons |-> "weapons.json", classes |-> "classes.json"]

\* All tiles of a w x h map
Tiles(w, h) == (0..(w - 1)) \X (0..(h - 1))

\* The scenario map: 5x5, one player unit at (2,2) with mov 2.
ScenarioFile == MapFile(5, 5, << Placement("player", "alvis", 2, 2) >>, 2)

\* Every two-row board of width BoardWidth with a player unit and an enemy
\* unit anywhere on it (also on the same tile: the loader accepts it), for
\* every mov stat 0..MaxMov of the player unit.
TwoUnitFiles ==
    {MapFile(BoardWidth, 2,
             << Placement("player", "alvis", p[1], p[2]),
                Placement("enemy", "bandit", e[1], e[2]) >>, m) :
        p \in Tiles(BoardWidth, 2),
        e \in Tiles(BoardWidth, 2),
        m \in 0..MaxMov}

\* Every two-row board of width BoardWidth with a single player unit
\* anywhere on it, for every mov stat 0..MaxMov.
SoloFiles ==
    {MapFile(BoardWidth, 2, << Placement("player", "alvis", p[1], p[2]) >>, m) :
        p \in Tiles(BoardWidth, 2), m \in 0..MaxMov}

\* A 3x2 map with two player units, one of them with a full inventory, and
\* an enemy unit whose id is not in units.json.
SquadFile ==
    MapFile(3, 2, << Placement("player", "celia", 0, 0),
                     Placement("player", "brom", 2, 0),
                     Placement("enemy", "ghost", 1, 0) >>, 1)

\* A 2x1 map with one player unit that carries two swords of her class, an
\* axe and a prf sword without a user.
KitFile == MapFile(2, 1, << Placement("player", "dara", 0, 0) >>, 1)

\* A 2x1 map with one player unit whose first inventory entry is an axe,
\* which her class cannot wield, and whose second is a sword.
MisfitFile == MapFile(2, 1, << Placement("player", "edda", 0, 0) >>, 1)

\* A 2x2 map whose file places the enemy unit at (2,1), one column past the
\* right edge: LoadMap copies "x" and "y" as they are (lines 224-225).
StrayFile ==
    MapFile(2, 2, << Placement("player", "alvis", 0, 0),
                     Placement("enemy", "bandit", 2, 1) >>, 1)

\* A map file that cannot be opened or parsed, and one whose atlas cannot.
MissingFile == [MapFile(0, 0, <<>>, 0) EXCEPT !.load = "nofile"]

BadAtlasFile == [MapFile(2, 2, << Placement("player", "alvis", 0, 0) >>, 1) EXCEPT !.load = "noatlas"]

MapFiles ==
    {ScenarioFile, SquadFile, KitFile, MisfitFile, StrayFile, MissingFile, BadAtlasFile}
        \cup SoloFiles \cup TwoUnitFiles

\* The MapUnit built by LoadMap from one placement (lines 219-281).
LoadUnit(file, p) ==
    LET unitsData == UnitsFile(file.mov)
        found == /\ p.unit_id # ""
                 /\ p.type \in DOMAIN unitsData
                 /\ p.unit_id \in DOMAIN unitsData[p.type]
        unitData == unitsData[p.type][p.unit_id]
    IN  IF found
        THEN [type |-> p.type, unitId |-> p.unit_id,
              className |-> GetClassDisplayName(ClassTable(file.classes), unitData.class),
              x |-> p.x, y |-> p.y, mov |-> unitData.mov,
              inventory |-> unitData.current_inventory,
              equippedItemIndex |-> IF unitData.current_inventory # <<>> THEN 0 ELSE -1,
              hasMoved |-> FALSE]
        ELSE [type |-> p.type, unitId |-> p.unit_id, className |-> "",
              x |-> p.x, y |-> p.y, mov |-> DefaultMov,
              inventory |-> <<>>, equippedItemIndex |-> -1, hasMoved |-> FALSE]

\* --------------------------------------------------------------------------
\* State
\* --------------------------------------------------------------------------

VARIABLES
    mapFile,                \* the files on disk (never written by the engine)
    gameState,              \* GameStateManager::currentState
    tileSize, mapWidth, mapHeight, units, weaponsData, classesData,
    cameraX, cameraY, cursorX, cursorY,
    selectedUnitIndex, moveRangeTiles, attackRangeTiles,
    showActionMenu, selectedActionIndex, originalUnitX, originalUnitY,
    showInventoryMenu, selectedInventoryIndex, inventoryUnitIndex,
    showDropConfirmation, originalInventory, originalEquippedIndex,
    showUnitInfo, unitInfoIndex,
    moveTrail,              \* history of the last move (not program state)
    probe                   \* one call of CanUnitWieldWeapon: arguments and result

dataVars   == <<tileSize, mapWidth, mapHeight, weaponsData, classesData>>
cameraVars == <<cameraX, cameraY>>
cursorVars == <<cursorX, cursorY>>
rangeVars  == <<moveRangeTiles, attackRangeTiles>>
actionVars == <<showActionMenu, selectedActionIndex>>
originVars == <<originalUnitX, originalUnitY>>
invVars    == <<showInventoryMenu, selectedInventoryIndex, inventoryUnitIndex,
               showDropConfirmation, originalInventory, originalEquippedIndex>>
infoVars   == <<showUnitInfo, unitInfoIndex>>

\* The MapManager object
mapVars == <<dataVars, units, cameraVars, cursorVars, selectedUnitIndex, rangeVars,
             actionVars, originVars, invVars, infoVars>>

\* Everything the engine reads or writes
engineVars == <<mapFile, gameState, mapVars>>

vars == <<engineVars, moveTrail, probe>>

\* No move under way.
NoTrail ==
    [phase |-> "none", unit |-> -1, from |-> <<0, 0>>, to |-> <<0, 0>>,
     inventory |-> <<>>, equippedItemIndex |-> -1, edits |-> "none"]

\* No call of the equipment resolver under study.
NoProbe ==
    [unitId |-> "", classId |-> "", weaponId |-> "", weapons |-> "null",
     classes |-> "null", done |-> FALSE, result |-> FALSE,
     weapon |-> DefaultWeaponData("")]

\* The engine after construction (MapManager's constructor, lines 8-17) with
\* the splash screen over and the title menu showing.
Constructed ==
    /\ gameState = "STATE_TITLE"
    /\ tileSize = 32
    /\ mapWidth = 0
    /\ mapHeight = 0
    /\ units = <<>>
    /\ weaponsData = "null"
    /\ classesData = "null"
    /\ cameraX = 0
    /\ cameraY = 0
    /\ cursorX = 0
    /\ cursorY = 0
    /\ selectedUnitIndex = -1
    /\ moveRangeTiles = <<>>
    /\ attackRangeTiles = <<>>
    /\ showActionMenu = FALSE
    /\ selectedActionIndex = 0
    /\ originalUnitX = 0
    /\ originalUnitY = 0
    /\ showInventoryMenu = FALSE
    /\ selectedInventoryIndex = 0
    /\ inventoryUnitIndex = -1
    /\ showDropConfirmation = FALSE
    /\ originalInventory = <<>>
    /\ originalEquippedIndex = -1
    /\ showUnitInfo = FALSE
    /\ unitInfoIndex = -1

\* The state after construction, with any of the map files on disk.
Init ==
    /\ mapFile \in MapFiles
    /\ Constructed
    /\ moveTrail = NoTrail
    /\ probe = NoProbe

\* --------------------------------------------------------------------------
\* Grid & camera
\* --------------------------------------------------------------------------

\* static_cast<int>(tileSize * scale)
ScaledTileSize == tileSize * Scale

\* MapManager::MoveCamera applied to camera <<cx, cy>>: the new camera.
MoveCamera(cx, cy, dx, dy) ==
    LET maxCameraX == (mapWidth * ScaledTileSize) - ScreenWidth
        maxCameraY == (mapHeight * ScaledTileSize) - ScreenHeight
        x1 == IF cx + dx < 0 THEN 0 ELSE cx + dx
        y1 == IF cy + dy < 0 THEN 0 ELSE cy + dy
    IN  << IF x1 > maxCameraX THEN maxCameraX ELSE x1,
           IF y1 > maxCameraY THEN maxCameraY ELSE y1 >>

\* The cursor clamp without its upper bound.
ClampCursor_LowerOnly(v, size) == IF v < 0 THEN 0 ELSE v

\* The cursor clamp of MoveCursor (lines 707-710) for one coordinate.
ClampCursor(v, size) ==
    LET low == IF v < 0 THEN 0 ELSE v
    IN  IF low >= size THEN size - 1 ELSE low

\* MapManager::MoveCursor, with its camera auto-scroll.
MoveCursor(dx, dy) ==
    LET nx == ClampCursor(cursorX + dx, mapWidth)
        ny == ClampCursor(cursorY + dy, mapHeight)
        cursorScreenX == (nx * ScaledTileSize) - cameraX
        cursorScreenY == (ny * ScaledTileSize) - cameraY
        scrollMargin == ScaledTileSize * 2
        farX == ScreenWidth - scrollMargin - ScaledTileSize
        farY == ScreenHeight - scrollMargin - ScaledTileSize
        cam1 == IF cursorScreenX < scrollMargin
                THEN MoveCamera(cameraX, cameraY, cursorScreenX - scrollMargin, 0)
                ELSE IF cursorScreenX > farX
                THEN MoveCamera(cameraX, cameraY, cursorScreenX - farX, 0)
                ELSE <<cameraX, cameraY>>
        cam2 == IF cursorScreenY < scrollMargin
                THEN MoveCamera(cam1[1], cam1[2], 0, cursorScreenY - scrollMargin)
                ELSE IF cursorScreenY > farY
                THEN MoveCamera(cam1[1], cam1[2], 0, cursorScreenY - farY)
                ELSE cam1
    IN  /\ cursorX' = nx
        /\ cursorY' = ny
        /\ cameraX' = cam2[1]
        /\ cameraY' = cam2[2]
        /\ UNCHANGED <<dataVars, units, selectedUnitIndex, rangeVars, actionVars,
                       originVars, invVars, infoVars>>

\* --------------------------------------------------------------------------
\* Range calculator
\* --------------------------------------------------------------------------

\* The order in which "for y ... for x ..." visits the tiles of the map.
RowMajor == [i \in 1..(mapWidth * mapHeight) |-> <<(i - 1) % mapWidth, (i - 1) \div mapWidth>>]

\* MapManager::GetUnitAtPosition over the roster us: the first unit on (x,y).
GetUnitAtPosition(us, x, y) ==
    LET here == {i \in 1..Len(us) : us[i].x = x /\ us[i].y = y}
    IN  IF here = {} THEN -1
        ELSE (CHOOSE i \in here : \A j \in here : i <= j) - 1

\* CalculateMovementRange without the occupancy test.
CalculateMovementRange_IgnoresUnits(us, sel) ==
    IF sel < 0 THEN <<>>
    ELSE LET unit == us[sel + 1]
             CanMove(t) == Manhattan(t[1], t[2], unit.x, unit.y) <= unit.mov
         IN  SelectSeq(RowMajor, CanMove)

\* CalculateMovementRange blocked by other player units only
CalculateMovementRange_EnemiesPassable(us, sel) ==
    IF sel < 0 THEN <<>>
    ELSE LET unit == us[sel + 1]
             CanMove(t) ==
                /\ Manhattan(t[1], t[2], unit.x, unit.y) <= unit.mov
                /\ LET otherUnit == GetUnitAtPosition(us, t[1], t[2])
                   IN  ~(otherUnit >= 0 /\ otherUnit # sel
                           /\ us[otherUnit + 1].type = "player")
         IN  SelectSeq(RowMajor, CanMove)

\* MapManager::CalculateMovementRange: the new moveRangeTiles for roster us
\* and selection sel.
CalculateMovementRange(us, sel) ==
    IF sel < 0 THEN <<>>
    ELSE LET unit == us[sel + 1]
             CanMove(t) ==
                /\ Manhattan(t[1], t[2], unit.x, unit.y) <= unit.mov
                /\ LET otherUnit == GetUnitAtPosition(us, t[1], t[2])
                   IN  ~(otherUnit >= 0 /\ otherUnit # sel)
         IN  SelectSeq(RowMajor, CanMove)

\* The inner loops of CalculateAttackRange reaching adjacent tiles only.
AttackFrom_AdjacentOnly(unit, m, added) ==
    LET Fresh(a) ==
            /\ Manhattan(a[1], a[2], m[1], m[2]) = 1
            /\ ~(Manhattan(a[1], a[2], unit.x, unit.y) <= unit.mov)
            /\ a \notin Range(added)
    IN  added \o SelectSeq(RowMajor, Fresh)

\* The attack tiles one movement position adds to the list so far (the inner
\* loops of CalculateAttackRange, lines 857-879).
AttackFrom(unit, m, added) ==
    LET Fresh(a) ==
            /\ Manhattan(a[1], a[2], m[1], m[2]) >= 1
            /\ Manhattan(a[1], a[2], m[1], m[2]) <= AttackRange
            /\ ~(Manhattan(a[1], a[2], unit.x, unit.y) <= unit.mov)
            /\ a \notin Range(added)
    IN  added \o SelectSeq(RowMajor, Fresh)

\* The outer loops of CalculateAttackRange from the i-th tile on.
RECURSIVE AttackScan(_, _, _)
AttackScan(unit, i, added) ==
    IF i > Len(RowMajor) THEN added
    ELSE LET m == RowMajor[i]
         IN  IF Manhattan(m[1], m[2], unit.x, unit.y) > unit.mov
             THEN AttackScan(unit, i + 1, added)
             ELSE AttackScan(unit, i + 1, AttackFrom(unit, m, added))

\* MapManager::CalculateAttackRange: the new attackRangeTiles.
CalculateAttackRange(us, sel) ==
    IF sel < 0 THEN <<>> ELSE AttackScan(us[sel + 1], 1, <<>>)

\* IsInMoveRange without the "staying at current position" clause
IsInMoveRange_ListOnly(x, y) == <<x, y>> \in Range(moveRangeTiles)

\* MapManager::IsInMoveRange
IsInMoveRange(x, y) ==
    \/ <<x, y>> \in Range(moveRangeTiles)
    \/ /\ selectedUnitIndex >= 0
       /\ x = units[selectedUnitIndex + 1].x
       /\ y = units[selectedUnitIndex + 1].y

\* --------------------------------------------------------------------------
\* Map loading
\* --------------------------------------------------------------------------

\* MapManager::LoadMap on the files on disk. ClearMap and the resets of lines
\* 118-139 happen whatever follows; originalUnitX/Y are not reset. A file
\* that cannot be read leaves the map empty; an atlas that cannot be loaded
\* leaves the size set and no unit placed.
LoadMap(file) ==
    /\ cursorX' = 0
    /\ cursorY' = 0
    /\ cameraX' = 0
    /\ cameraY' = 0
    /\ selectedUnitIndex' = -1
    /\ showActionMenu' = FALSE
    /\ selectedActionIndex' = 0
    /\ showInventoryMenu' = FALSE
    /\ selectedInventoryIndex' = 0
    /\ inventoryUnitIndex' = -1
    /\ showDropConfirmation' = FALSE
    /\ showUnitInfo' = FALSE
    /\ unitInfoIndex' = -1
    /\ moveRangeTiles' = <<>>
    /\ attackRangeTiles' = <<>>
    /\ originalInventory' = <<>>
    /\ originalEquippedIndex' = -1
    /\ UNCHANGED originVars
    /\ CASE file.load = "nofile" ->
              /\ mapWidth' = 0
              /\ mapHeight' = 0
              /\ units' = <<>>
              /\ UNCHANGED <<tileSize, weaponsData, classesData>>
         [] file.load = "noatlas" ->
              /\ mapWidth' = file.width
              /\ mapHeight' = file.height
              /\ tileSize' = file.tile_size
              /\ units' = <<>>
              /\ UNCHANGED <<weaponsData, classesData>>
         [] OTHER ->
              /\ mapWidth' = file.width
              /\ mapHeight' = file.height
              /\ tileSize' = file.tile_size
              /\ weaponsData' = file.weapons
              /\ classesData' = file.classes
              /\ units' = [i \in 1..Len(file.units) |-> LoadUnit(file, file.units[i])]

\* The value LoadMap returns: false when the map file cannot be opened
\* (lines 141-146) or the atlas cannot be loaded (lines 159-165), true at
\* line 285.
LoadMapResult(file) == file.load = "ok"

\* --------------------------------------------------------------------------
\* Interaction state machine: selection and movement
\* --------------------------------------------------------------------------

HasSelectedUnit == selectedUnitIndex >= 0

\* SelectUnit without the hasMoved test.
SelectUnit_IgnoresHasMoved ==
    LET unitIndex == GetUnitAtPosition(units, cursorX, cursorY)
    IN  /\ IF unitIndex >= 0 /\ units[unitIndex + 1].type = "player"
           THEN /\ selectedUnitIndex' = unitIndex
                /\ moveRangeTiles' = CalculateMovementRange(units, unitIndex)
                /\ attackRangeTiles' = CalculateAttackRange(units, unitIndex)
           ELSE UNCHANGED <<selectedUnitIndex, rangeVars>>
        /\ UNCHANGED <<dataVars, units, cameraVars, cursorVars, actionVars,
                       originVars, invVars, infoVars>>

\* SelectUnit without the test of the unit's type
SelectUnit_AnyType ==
    LET unitIndex == GetUnitAtPosition(units, cursorX, cursorY)
    IN  /\ IF unitIndex >= 0 /\ ~units[unitIndex + 1].hasMoved
           THEN /\ selectedUnitIndex' = unitIndex
                /\ moveRangeTiles' = CalculateMovementRange(units, unitIndex)
                /\ attackRangeTiles' = CalculateAttackRange(units, unitIndex)
           ELSE UNCHANGED <<selectedUnitIndex, rangeVars>>
        /\ UNCHANGED <<dataVars, units, cameraVars, cursorVars, actionVars,
                       originVars, invVars, infoVars>>

\* MapManager::SelectUnit
SelectUnit ==
    LET unitIndex == GetUnitAtPosition(units, cursorX, cursorY)
    IN  /\ IF /\ unitIndex >= 0
              /\ units[unitIndex + 1].type = "player"
              /\ ~units[unitIndex + 1].hasMoved
           THEN /\ selectedUnitIndex' = unitIndex
                /\ moveRangeTiles' = CalculateMovementRange(units, unitIndex)
                /\ attackRangeTiles' = CalculateAttackRange(units, unitIndex)
           ELSE UNCHANGED <<selectedUnitIndex, rangeVars>>
        /\ UNCHANGED <<dataVars, units, cameraVars, cursorVars, actionVars,
                       originVars, invVars, infoVars>>

\* MapManager::CancelSelection
CancelSelection ==
    /\ selectedUnitIndex' = -1
    /\ moveRangeTiles' = <<>>
    /\ attackRangeTiles' = <<>>
    /\ showActionMenu' = FALSE
    /\ selectedActionIndex' = 0
    /\ UNCHANGED <<dataVars, units, cameraVars, cursorVars, originVars, invVars, infoVars>>

\* ConfirmMove without the IsInMoveRange test.
ConfirmMove_NoRangeCheck ==
    IF selectedUnitIndex < 0
    THEN UNCHANGED mapVars
    ELSE /\ originalUnitX' = units[selectedUnitIndex + 1].x
         /\ originalUnitY' = units[selectedUnitIndex + 1].y
         /\ units' = [units EXCEPT ![selectedUnitIndex + 1].x = cursorX,
                                   ![selectedUnitIndex + 1].y = cursorY]
         /\ moveRangeTiles' = <<>>
         /\ attackRangeTiles' = <<>>
         /\ showActionMenu' = TRUE
         /\ selectedActionIndex' = 0
         /\ UNCHANGED <<dataVars, cameraVars, cursorVars, selectedUnitIndex,
                        invVars, infoVars>>

\* ConfirmMove recording the original position after the unit was moved.
ConfirmMove_RecordsAfterMove ==
    IF selectedUnitIndex < 0 \/ ~IsInMoveRange(cursorX, cursorY)
    THEN UNCHANGED mapVars
    ELSE /\ originalUnitX' = cursorX
         /\ originalUnitY' = cursorY
         /\ units' = [units EXCEPT ![selectedUnitIndex + 1].x = cursorX,
                                   ![selectedUnitIndex + 1].y = cursorY]
         /\ moveRangeTiles' = <<>>
         /\ attackRangeTiles' = <<>>
         /\ showActionMenu' = TRUE
         /\ selectedActionIndex' = 0
         /\ UNCHANGED <<dataVars, cameraVars, cursorVars, selectedUnitIndex,
                        invVars, infoVars>>

\* MapManager::ConfirmMove
ConfirmMove ==
    IF selectedUnitIndex < 0 \/ ~IsInMoveRange(cursorX, cursorY)
    THEN UNCHANGED mapVars
    ELSE /\ originalUnitX' = units[selectedUnitIndex + 1].x
         /\ originalUnitY' = units[selectedUnitIndex + 1].y
         /\ units' = [units EXCEPT ![selectedUnitIndex + 1].x = cursorX,
                                   ![selectedUnitIndex + 1].y = cursorY]
         /\ moveRangeTiles' = <<>>
         /\ attackRangeTiles' = <<>>
         /\ showActionMenu' = TRUE
         /\ selectedActionIndex' = 0
         /\ UNCHANGED <<dataVars, cameraVars, cursorVars, selectedUnitIndex,
                        invVars, infoVars>>

\* --------------------------------------------------------------------------
\* Interaction state machine: action menu
\* --------------------------------------------------------------------------

\* MapManager::MoveActionSelection
MoveActionSelection(delta) ==
    IF ~showActionMenu
    THEN UNCHANGED mapVars
    ELSE /\ selectedActionIndex' =
                LET moved == selectedActionIndex + delta
                    low == IF moved < 0 THEN 1 ELSE moved
                IN  IF low > 1 THEN 0 ELSE low
         /\ UNCHANGED <<dataVars, units, cameraVars, cursorVars, selectedUnitIndex,
                        rangeVars, showActionMenu, originVars, invVars, infoVars>>

\* OpenInventory leaving the action menu shown.
OpenInventory_KeepsActionMenu ==
    IF selectedUnitIndex < 0
    THEN UNCHANGED mapVars
    ELSE /\ inventoryUnitIndex' = selectedUnitIndex
         /\ originalInventory' = units[selectedUnitIndex + 1].inventory
         /\ originalEquippedIndex' = units[selectedUnitIndex + 1].equippedItemIndex
         /\ showInventoryMenu' = TRUE
         /\ showDropConfirmation' = FALSE
         /\ selectedInventoryIndex' = 0
         /\ UNCHANGED <<dataVars, units, cameraVars, cursorVars, selectedUnitIndex,
                        rangeVars, actionVars, originVars, infoVars>>

\* MapManager::OpenInventory
OpenInventory ==
    IF selectedUnitIndex < 0
    THEN UNCHANGED mapVars
    ELSE /\ inventoryUnitIndex' = selectedUnitIndex
         /\ originalInventory' = units[selectedUnitIndex + 1].inventory
         /\ originalEquippedIndex' = units[selectedUnitIndex + 1].equippedItemIndex
         /\ showInventoryMenu' = TRUE
         /\ showActionMenu' = FALSE
         /\ showDropConfirmation' = FALSE
         /\ selectedInventoryIndex' = 0
         /\ UNCHANGED <<dataVars, units, cameraVars, cursorVars, selectedUnitIndex,
                        rangeVars, selectedActionIndex, originVars, infoVars>>

\* ConfirmAction whose Wait branch does not mark the unit as moved.
ConfirmAction_WaitLeavesUnmoved ==
    IF ~showActionMenu
    THEN UNCHANGED mapVars
    ELSE IF selectedActionIndex = 0
    THEN OpenInventory
    ELSE IF selectedActionIndex = 1 /\ selectedUnitIndex >= 0
    THEN /\ selectedUnitIndex' = -1
         /\ showActionMenu' = FALSE
         /\ originalInventory' = <<>>
         /\ originalEquippedIndex' = -1
         /\ UNCHANGED <<dataVars, units, cameraVars, cursorVars, rangeVars,
                        selectedActionIndex, originVars, showInventoryMenu,
                        selectedInventoryIndex, inventoryUnitIndex,
                        showDropConfirmation, infoVars>>
    ELSE UNCHANGED mapVars

\* MapManager::ConfirmAction. The Wait branch indexes units with
\* selectedUnitIndex unchecked; the menu is only ever shown with a unit
\* selected, and the branch is guarded here so that it stays defined.
ConfirmAction ==
    IF ~showActionMenu
    THEN UNCHANGED mapVars
    ELSE IF selectedActionIndex = 0
    THEN OpenInventory
    ELSE IF selectedActionIndex = 1 /\ selectedUnitIndex >= 0
    THEN /\ units' = [units EXCEPT ![selectedUnitIndex + 1].hasMoved = TRUE]
         /\ selectedUnitIndex' = -1
         /\ showActionMenu' = FALSE
         /\ originalInventory' = <<>>
         /\ originalEquippedIndex' = -1
         /\ UNCHANGED <<dataVars, cameraVars, cursorVars, rangeVars, selectedActionIndex,
                        originVars, showInventoryMenu, selectedInventoryIndex,
                        inventoryUnitIndex, showDropConfirmation, infoVars>>
    ELSE UNCHANGED mapVars

\* CancelActionMenu restoring the column only (the row is left where the
\* unit was sent).
CancelActionMenu_KeepsRow ==
    IF ~showActionMenu \/ selectedUnitIndex < 0
    THEN UNCHANGED mapVars
    ELSE LET restored == [units EXCEPT ![selectedUnitIndex + 1].x = originalUnitX]
         IN  /\ units' = restored
             /\ cursorX' = originalUnitX
             /\ cursorY' = originalUnitY
             /\ showActionMenu' = FALSE
             /\ selectedActionIndex' = 0
             /\ moveRangeTiles' = CalculateMovementRange(restored, selectedUnitIndex)
             /\ attackRangeTiles' = CalculateAttackRange(restored, selectedUnitIndex)
             /\ UNCHANGED <<dataVars, cameraVars, selectedUnitIndex, originVars,
                            invVars, infoVars>>

\* CancelActionMenu without the two recalculations at its end
CancelActionMenu_NoRecalc ==
    IF ~showActionMenu \/ selectedUnitIndex < 0
    THEN UNCHANGED mapVars
    ELSE /\ units' = [units EXCEPT ![selectedUnitIndex + 1].x = originalUnitX,
                                   ![selectedUnitIndex + 1].y = originalUnitY]
         /\ cursorX' = originalUnitX
         /\ cursorY' = originalUnitY
         /\ showActionMenu' = FALSE
         /\ selectedActionIndex' = 0
         /\ UNCHANGED <<dataVars, cameraVars, selectedUnitIndex, rangeVars, originVars,
                        invVars, infoVars>>

\* MapManager::CancelActionMenu
CancelActionMenu ==
    IF ~showActionMenu \/ selectedUnitIndex < 0
    THEN UNCHANGED mapVars
    ELSE LET restored == [units EXCEPT ![selectedUnitIndex + 1].x = originalUnitX,
                                       ![selectedUnitIndex + 1].y = originalUnitY]
         IN  /\ units' = restored
             /\ cursorX' = originalUnitX
             /\ cursorY' = originalUnitY
             /\ showActionMenu' = FALSE
             /\ selectedActionIndex' = 0
             /\ moveRangeTiles' = CalculateMovementRange(restored, selectedUnitIndex)
             /\ attackRangeTiles' = CalculateAttackRange(restored, selectedUnitIndex)
             /\ UNCHANGED <<dataVars, cameraVars, selectedUnitIndex, originVars,
                            invVars, infoVars>>

\* --------------------------------------------------------------------------
\* Interaction state machine: inventory menu
\* --------------------------------------------------------------------------

\* CloseInventory returning to the map instead of the action menu.
CloseInventory_NoActionMenu ==
    /\ IF inventoryUnitIndex >= 0 /\ inventoryUnitIndex < Len(units)
       THEN units' = [units EXCEPT
                        ![inventoryUnitIndex + 1].inventory = originalInventory,
                        ![inventoryUnitIndex + 1].equippedItemIndex = originalEquippedIndex]
       ELSE UNCHANGED units
    /\ showInventoryMenu' = FALSE
    /\ showDropConfirmation' = FALSE
    /\ inventoryUnitIndex' = -1
    /\ selectedInventoryIndex' = 0
    /\ originalInventory' = <<>>
    /\ showActionMenu' = FALSE
    /\ selectedActionIndex' = 0
    /\ UNCHANGED <<dataVars, cameraVars, cursorVars, selectedUnitIndex, rangeVars,
                   originVars, originalEquippedIndex, infoVars>>

\* CloseInventory recording the unit's present tile as the original one
CloseInventory_ForgetsOrigin ==
    /\ IF inventoryUnitIndex >= 0 /\ inventoryUnitIndex < Len(units)
       THEN /\ units' = [units EXCEPT
                          ![inventoryUnitIndex + 1].inventory = originalInventory,
                          ![inventoryUnitIndex + 1].equippedItemIndex = originalEquippedIndex]
            /\ originalUnitX' = units[inventoryUnitIndex + 1].x
            /\ originalUnitY' = units[inventoryUnitIndex + 1].y
       ELSE UNCHANGED <<units, originVars>>
    /\ showInventoryMenu' = FALSE
    /\ showDropConfirmation' = FALSE
    /\ inventoryUnitIndex' = -1
    /\ selectedInventoryIndex' = 0
    /\ originalInventory' = <<>>
    /\ showActionMenu' = TRUE
    /\ selectedActionIndex' = 0
    /\ UNCHANGED <<dataVars, cameraVars, cursorVars, selectedUnitIndex, rangeVars,
                   originalEquippedIndex, infoVars>>

\* MapManager::CloseInventory
CloseInventory ==
    /\ IF inventoryUnitIndex >= 0 /\ inventoryUnitIndex < Len(units)
       THEN units' = [units EXCEPT
                        ![inventoryUnitIndex + 1].inventory = originalInventory,
                        ![inventoryUnitIndex + 1].equippedItemIndex = originalEquippedIndex]
       ELSE UNCHANGED units
    /\ showInventoryMenu' = FALSE
    /\ showDropConfirmation' = FALSE
    /\ inventoryUnitIndex' = -1
    /\ selectedInventoryIndex' = 0
    /\ originalInventory' = <<>>
    /\ showActionMenu' = TRUE
    /\ selectedActionIndex' = 0
    /\ UNCHANGED <<dataVars, cameraVars, cursorVars, selectedUnitIndex, rangeVars,
                   originVars, originalEquippedIndex, infoVars>>

\* MapManager::MoveInventorySelection
MoveInventorySelection(delta) ==
    IF ~showInventoryMenu \/ inventoryUnitIndex < 0
    THEN UNCHANGED mapVars
    ELSE LET maxIndex == Len(units[inventoryUnitIndex + 1].inventory) + 1
             moved == selectedInventoryIndex + delta
             low == IF moved < 0 THEN maxIndex - 1 ELSE moved
         IN  /\ selectedInventoryIndex' = IF low >= maxIndex THEN 0 ELSE low
             /\ UNCHANGED <<dataVars, units, cameraVars, cursorVars, selectedUnitIndex,
                            rangeVars, actionVars, originVars, showInventoryMenu,
                            inventoryUnitIndex, showDropConfirmation, originalInventory,
                            originalEquippedIndex, infoVars>>

\* CancelDropConfirmation closing the inventory menu with the confirmation
CancelDropConfirmation_ClosesMenu ==
    /\ showDropConfirmation' = FALSE
    /\ showInventoryMenu' = FALSE
    /\ UNCHANGED <<dataVars, units, cameraVars, cursorVars, selectedUnitIndex, rangeVars,
                   actionVars, originVars, selectedInventoryIndex,
                   inventoryUnitIndex, originalInventory, originalEquippedIndex, infoVars>>

\* MapManager::CancelDropConfirmation
CancelDropConfirmation ==
    /\ showDropConfirmation' = FALSE
    /\ UNCHANGED <<dataVars, units, cameraVars, cursorVars, selectedUnitIndex, rangeVars,
                   actionVars, originVars, showInventoryMenu, selectedInventoryIndex,
                   inventoryUnitIndex, originalInventory, originalEquippedIndex, infoVars>>

\* A drop that leaves the highlighted row where it was
AdjustSelection_Keeps(index, size) == index

\* The selection adjustment after a drop (lines 1034-1037): size is the
\* inventory's length after the erase.
AdjustSelection(index, size) == IF index >= size + 1 THEN size ELSE index

\* Can the unit wield the weapon with this id, by the loaded tables?
CanWieldItem(unit, weaponId) ==
    CanUnitWieldWeapon(ClassTable(classesData), unit,
                       GetWeaponData(WeaponTable(weaponsData), weaponId))

\* The auto-equip taking the first remaining entry, wieldable or not.
FirstWieldable_FirstEntry(unit, inv) == IF inv = <<>> THEN -1 ELSE 0

\* An auto-equip that takes index 0 without looking at the inventory
FirstWieldable_Zero(unit, inv) == 0

\* The index auto-equipped after a drop (lines 1017-1026): the first entry
\* of inv the unit can wield, -1 if there is none.
FirstWieldable(unit, inv) ==
    LET ok == {i \in 0..(Len(inv) - 1) : CanWieldItem(unit, inv[i + 1])}
    IN  IF ok = {} THEN -1 ELSE CHOOSE i \in ok : \A j \in ok : i <= j

\* ConfirmInventoryAction opening the drop confirmation on the Drop row
\* whether or not an item is equipped.
ConfirmInventoryAction_DropRowAlwaysAsks ==
    IF ~showInventoryMenu \/ inventoryUnitIndex < 0
    THEN UNCHANGED mapVars
    ELSE LET unit == units[inventoryUnitIndex + 1]
             hasEquipped == /\ unit.equippedItemIndex >= 0
                            /\ unit.equippedItemIndex < Len(unit.inventory)
         IN  IF showDropConfirmation
             THEN /\ IF hasEquipped
                     THEN LET left == Erase(unit.inventory, unit.equippedItemIndex)
                              equip == FirstWieldable(unit, left)
                          IN  /\ units' = [units EXCEPT
                                    ![inventoryUnitIndex + 1].inventory = left,
                                    ![inventoryUnitIndex + 1].equippedItemIndex = equip]
                              /\ originalInventory' = left
                              /\ originalEquippedIndex' = equip
                              /\ selectedInventoryIndex' =
                                    IF selectedInventoryIndex >= Len(left) + 1
                                    THEN Len(left) ELSE selectedInventoryIndex
                     ELSE UNCHANGED <<units, originalInventory, originalEquippedIndex,
                                      selectedInventoryIndex>>
                  /\ showDropConfirmation' = FALSE
                  /\ UNCHANGED <<dataVars, cameraVars, cursorVars, selectedUnitIndex,
                                 rangeVars, actionVars, originVars, showInventoryMenu,
                                 inventoryUnitIndex, infoVars>>
             ELSE IF selectedInventoryIndex < Len(unit.inventory)
             THEN IF CanWieldItem(unit, unit.inventory[selectedInventoryIndex + 1])
                  THEN /\ units' = [units EXCEPT ![inventoryUnitIndex + 1].equippedItemIndex =
                                        selectedInventoryIndex]
                       /\ originalEquippedIndex' = selectedInventoryIndex
                       /\ UNCHANGED <<dataVars, cameraVars, cursorVars, selectedUnitIndex,
                                      rangeVars, actionVars, originVars, showInventoryMenu,
                                      selectedInventoryIndex, inventoryUnitIndex,
                                      showDropConfirmation, originalInventory, infoVars>>
                  ELSE UNCHANGED mapVars
             ELSE IF selectedInventoryIndex = Len(unit.inventory)
             THEN /\ showDropConfirmation' = TRUE
                  /\ UNCHANGED <<dataVars, units, cameraVars, cursorVars, selectedUnitIndex,
                                 rangeVars, actionVars, originVars, showInventoryMenu,
                                 selectedInventoryIndex, inventoryUnitIndex,
                                 originalInventory, originalEquippedIndex, infoVars>>
             ELSE UNCHANGED mapVars

\* ConfirmInventoryAction equipping the highlighted row without asking
\* whether the unit can wield it.
ConfirmInventoryAction_EquipsAnything ==
    IF ~showInventoryMenu \/ inventoryUnitIndex < 0
    THEN UNCHANGED mapVars
    ELSE LET unit == units[inventoryUnitIndex + 1]
             hasEquipped == /\ unit.equippedItemIndex >= 0
                            /\ unit.equippedItemIndex < Len(unit.inventory)
         IN  IF showDropConfirmation
             THEN /\ IF hasEquipped
                     THEN LET left == Erase(unit.inventory, unit.equippedItemIndex)
                              equip == FirstWieldable(unit, left)
                          IN  /\ units' = [units EXCEPT
                                    ![inventoryUnitIndex + 1].inventory = left,
                                    ![inventoryUnitIndex + 1].equippedItemIndex = equip]
                              /\ originalInventory' = left
                              /\ originalEquippedIndex' = equip
                              /\ selectedInventoryIndex' =
                                    IF selectedInventoryIndex >= Len(left) + 1
                                    THEN Len(left) ELSE selectedInventoryIndex
                     ELSE UNCHANGED <<units, originalInventory, originalEquippedIndex,
                                      selectedInventoryIndex>>
                  /\ showDropConfirmation' = FALSE
                  /\ UNCHANGED <<dataVars, cameraVars, cursorVars, selectedUnitIndex,
                                 rangeVars, actionVars, originVars, showInventoryMenu,
                                 inventoryUnitIndex, infoVars>>
             ELSE IF selectedInventoryIndex < Len(unit.inventory)
             THEN /\ units' = [units EXCEPT ![inventoryUnitIndex + 1].equippedItemIndex =
                                   selectedInventoryIndex]
                  /\ originalEquippedIndex' = selectedInventoryIndex
                  /\ UNCHANGED <<dataVars, cameraVars, cursorVars, selectedUnitIndex,
                                 rangeVars, actionVars, originVars, showInventoryMenu,
                                 selectedInventoryIndex, inventoryUnitIndex,
                                 showDropConfirmation, originalInventory, infoVars>>
             ELSE IF selectedInventoryIndex = Len(unit.inventory) /\ hasEquipped
             THEN /\ showDropConfirmation' = TRUE
                  /\ UNCHANGED <<dataVars, units, cameraVars, cursorVars, selectedUnitIndex,
                                 rangeVars, actionVars, originVars, showInventoryMenu,
                                 selectedInventoryIndex, inventoryUnitIndex,
                                 originalInventory, originalEquippedIndex, infoVars>>
             ELSE UNCHANGED mapVars

\* ConfirmInventoryAction whose equip branch leaves the backup as it was.
ConfirmInventoryAction_EquipSkipsBackup ==
    IF ~showInventoryMenu \/ inventoryUnitIndex < 0
    THEN UNCHANGED mapVars
    ELSE LET unit == units[inventoryUnitIndex + 1]
             hasEquipped == /\ unit.equippedItemIndex >= 0
                            /\ unit.equippedItemIndex < Len(unit.inventory)
         IN  IF showDropConfirmation
             THEN /\ IF hasEquipped
                     THEN LET left == Erase(unit.inventory, unit.equippedItemIndex)
                              equip == FirstWieldable(unit, left)
                          IN  /\ units' = [units EXCEPT
                                    ![inventoryUnitIndex + 1].inventory = left,
                                    ![inventoryUnitIndex + 1].equippedItemIndex = equip]
                              /\ originalInventory' = left
                              /\ originalEquippedIndex' = equip
                              /\ selectedInventoryIndex' =
                                    IF selectedInventoryIndex >= Len(left) + 1
                                    THEN Len(left) ELSE selectedInventoryIndex
                     ELSE UNCHANGED <<units, originalInventory, originalEquippedIndex,
                                      selectedInventoryIndex>>
                  /\ showDropConfirmation' = FALSE
                  /\ UNCHANGED <<dataVars, cameraVars, cursorVars, selectedUnitIndex,
                                 rangeVars, actionVars, originVars, showInventoryMenu,
                                 inventoryUnitIndex, infoVars>>
             ELSE IF selectedInventoryIndex < Len(unit.inventory)
             THEN IF CanWieldItem(unit, unit.inventory[selectedInventoryIndex + 1])
                  THEN /\ units' = [units EXCEPT ![inventoryUnitIndex + 1].equippedItemIndex =
                                        selectedInventoryIndex]
                       /\ UNCHANGED <<dataVars, cameraVars, cursorVars, selectedUnitIndex,
                                      rangeVars, actionVars, originVars, invVars, infoVars>>
                  ELSE UNCHANGED mapVars
             ELSE IF selectedInventoryIndex = Len(unit.inventory) /\ hasEquipped
             THEN /\ showDropConfirmation' = TRUE
                  /\ UNCHANGED <<dataVars, units, cameraVars, cursorVars, selectedUnitIndex,
                                 rangeVars, actionVars, originVars, showInventoryMenu,
                                 selectedInventoryIndex, inventoryUnitIndex,
                                 originalInventory, originalEquippedIndex, infoVars>>
             ELSE UNCHANGED mapVars

\* MapManager::ConfirmInventoryAction
ConfirmInventoryAction ==
    IF ~showInventoryMenu \/ inventoryUnitIndex < 0
    THEN UNCHANGED mapVars
    ELSE LET unit == units[inventoryUnitIndex + 1]
             hasEquipped == /\ unit.equippedItemIndex >= 0
                            /\ unit.equippedItemIndex < Len(unit.inventory)
         IN  IF showDropConfirmation
             THEN /\ IF hasEquipped
                     THEN LET left == Erase(unit.inventory, unit.equippedItemIndex)
                              equip == FirstWieldable(unit, left)
                          IN  /\ units' = [units EXCEPT
                                    ![inventoryUnitIndex + 1].inventory = left,
                                    ![inventoryUnitIndex + 1].equippedItemIndex = equip]
                              /\ originalInventory' = left
                              /\ originalEquippedIndex' = equip
                              /\ selectedInventoryIndex' =
                                    AdjustSelection(selectedInventoryIndex, Len(left))
                     ELSE UNCHANGED <<units, originalInventory, originalEquippedIndex,
                                      selectedInventoryIndex>>
                  /\ showDropConfirmation' = FALSE
                  /\ UNCHANGED <<dataVars, cameraVars, cursorVars, selectedUnitIndex,
                                 rangeVars, actionVars, originVars, showInventoryMenu,
                                 inventoryUnitIndex, infoVars>>
             ELSE IF selectedInventoryIndex < Len(unit.inventory)
             THEN IF CanWieldItem(unit, unit.inventory[selectedInventoryIndex + 1])
                  THEN /\ units' = [units EXCEPT ![inventoryUnitIndex + 1].equippedItemIndex =
                                        selectedInventoryIndex]
                       /\ originalEquippedIndex' = selectedInventoryIndex
                       /\ UNCHANGED <<dataVars, cameraVars, cursorVars, selectedUnitIndex,
                                      rangeVars, actionVars, originVars, showInventoryMenu,
                                      selectedInventoryIndex, inventoryUnitIndex,
                                      showDropConfirmation, originalInventory, infoVars>>
                  ELSE UNCHANGED mapVars
             ELSE IF selectedInventoryIndex = Len(unit.inventory) /\ hasEquipped
             THEN /\ showDropConfirmation' = TRUE
                  /\ UNCHANGED <<dataVars, units, cameraVars, cursorVars, selectedUnitIndex,
                                 rangeVars, actionVars, originVars, showInventoryMenu,
                                 selectedInventoryIndex, inventoryUnitIndex,
                                 originalInventory, originalEquippedIndex, infoVars>>
             ELSE UNCHANGED mapVars

\* --------------------------------------------------------------------------
\* Unit info panel
\* --------------------------------------------------------------------------

\* ToggleUnitInfo opening the panel whether or not a unit stands on the cursor
\* tile
ToggleUnitInfo_OpensAnywhere ==
    /\ IF showUnitInfo
       THEN /\ showUnitInfo' = FALSE
            /\ unitInfoIndex' = -1
       ELSE /\ showUnitInfo' = TRUE
            /\ unitInfoIndex' = GetUnitAtPosition(units, cursorX, cursorY)
    /\ UNCHANGED <<dataVars, units, cameraVars, cursorVars, selectedUnitIndex, rangeVars,
                   actionVars, originVars, invVars>>

\* MapManager::ToggleUnitInfo
ToggleUnitInfo ==
    /\ IF showUnitInfo
       THEN /\ showUnitInfo' = FALSE
            /\ unitInfoIndex' = -1
       ELSE LET unitIndex == GetUnitAtPosition(units, cursorX, cursorY)
            IN  IF unitIndex >= 0
                THEN /\ showUnitInfo' = TRUE
                     /\ unitInfoIndex' = unitIndex
                ELSE UNCHANGED infoVars
    /\ UNCHANGED <<dataVars, units, cameraVars, cursorVars, selectedUnitIndex, rangeVars,
                   actionVars, originVars, invVars>>

\* --------------------------------------------------------------------------
\* Host callbacks (main.cpp, SetupInputCallbacks)
\* --------------------------------------------------------------------------

\* SetMapSelectCallback lambda
onMapSelectAction == IF HasSelectedUnit THEN ConfirmMove ELSE SelectUnit

\* SetMapCancelCallback lambda; its return value is HasSelectedUnit as read
\* before the call.
onMapCancelAction == IF HasSelectedUnit THEN CancelSelection ELSE UNCHANGED mapVars

\* A cancel callback that reports "nothing to cancel" in every case
onMapCancelActionResult_AlwaysFalse == FALSE

\* The value the SetMapCancelCallback lambda returns: true on the branch that
\* calls CancelSelection, false otherwise (read before the call changes it)
onMapCancelActionResult == HasSelectedUnit

\* SetMapActionMenuCallback lambda for the actions that change state
\* (-1000 is the query answered by showActionMenu).
onMapActionMenuAction(action) ==
    CASE action = -1 \/ action = 1 -> MoveActionSelection(action)
      [] action = 100 -> ConfirmAction
      [] action = -100 -> CancelActionMenu
      [] OTHER -> UNCHANGED mapVars

\* An inventory callback that navigates also while the drop confirmation
\* shows
onMapInventoryAction_NavigatesAlways(action) ==
    CASE action = -1 \/ action = 1 -> MoveInventorySelection(action)
      [] action = 100 -> ConfirmInventoryAction
      [] action = -100 ->
            IF showDropConfirmation THEN CancelDropConfirmation ELSE CloseInventory
      [] OTHER -> UNCHANGED mapVars

\* SetMapInventoryCallback lambda for the actions that change state
\* (-2000 is the query answered by showInventoryMenu).
onMapInventoryAction(action) ==
    CASE action = -1 \/ action = 1 ->
            IF ~showDropConfirmation
            THEN MoveInventorySelection(action)
            ELSE UNCHANGED mapVars
      [] action = 100 -> ConfirmInventoryAction
      [] action = -100 ->
            IF showDropConfirmation THEN CancelDropConfirmation ELSE CloseInventory
      [] OTHER -> UNCHANGED mapVars

\* An action-menu query that always answers 0
onMapActionMenuQuery_AlwaysZero == FALSE

\* SetMapActionMenuCallback lambda, action -1000: is the action menu showing?
onMapActionMenuQuery == showActionMenu

\* SetMapInventoryCallback lambda, action -2000: is the inventory showing?
onMapInventoryQuery == showInventoryMenu

\* --------------------------------------------------------------------------
\* Input dispatch
\* --------------------------------------------------------------------------

\* Key classes told apart by HandleMapInput: arrows (with w/a/s/d), Tab,
\* confirm (Return, Space, z), x, Escape and any other key.
Keys == {"LEFT", "RIGHT", "UP", "DOWN", "TAB", "RETURN", "X", "ESCAPE", "OTHER"}

\* InputHandler::HandleMapInput
HandleMapInput(key) ==
    IF onMapInventoryQuery
    THEN /\ CASE key = "UP" -> onMapInventoryAction(-1)
              [] key = "DOWN" -> onMapInventoryAction(1)
              [] key = "RETURN" -> onMapInventoryAction(100)
              [] key = "ESCAPE" \/ key = "X" -> onMapInventoryAction(-100)
              [] OTHER -> UNCHANGED mapVars
         /\ UNCHANGED gameState
    ELSE IF onMapActionMenuQuery
    THEN /\ CASE key = "UP" -> onMapActionMenuAction(-1)
              [] key = "DOWN" -> onMapActionMenuAction(1)
              [] key = "RETURN" -> onMapActionMenuAction(100)
              [] key = "ESCAPE" \/ key = "X" -> onMapActionMenuAction(-100)
              [] OTHER -> UNCHANGED mapVars
         /\ UNCHANGED gameState
    ELSE CASE key = "LEFT" -> MoveCursor(-1, 0) /\ UNCHANGED gameState
           [] key = "RIGHT" -> MoveCursor(1, 0) /\ UNCHANGED gameState
           [] key = "UP" -> MoveCursor(0, -1) /\ UNCHANGED gameState
           [] key = "DOWN" -> MoveCursor(0, 1) /\ UNCHANGED gameState
           [] key = "TAB" -> ToggleUnitInfo /\ UNCHANGED gameState
           [] key = "RETURN" -> onMapSelectAction /\ UNCHANGED gameState
           [] key = "X" -> onMapCancelAction /\ UNCHANGED gameState
           [] key = "ESCAPE" ->
                /\ onMapCancelAction
                /\ IF onMapCancelActionResult
                   THEN UNCHANGED gameState
                   ELSE gameState' = "STATE_TITLE"
           [] OTHER -> UNCHANGED <<mapVars, gameState>>

\* InputHandler::HandleKeyDown while the map screen is up
HandleKeyDown(key) ==
    /\ gameState = "STATE_MAP"
    /\ HandleMapInput(key)
    /\ UNCHANGED mapFile

\* HandleTitleSelection(3), "Map Test": the result of LoadMap is not read and
\* the map screen is entered in every case.
HandleTitleSelection ==
    /\ gameState = "STATE_TITLE"
    /\ LoadMap(mapFile)
    /\ gameState' = "STATE_MAP"
    /\ UNCHANGED mapFile

\* --------------------------------------------------------------------------
\* History of the last move (not program state)
\* --------------------------------------------------------------------------

\* The trail of a unit that is sent from where it stands to the cursor
\* tile: the unit, the two tiles, and its inventory and equipped index at
\* that moment.
TrailStart ==
    [phase |-> "moved", unit |-> selectedUnitIndex,
     from |-> <<units[selectedUnitIndex + 1].x, units[selectedUnitIndex + 1].y>>,
     to |-> <<cursorX, cursorY>>,
     inventory |-> units[selectedUnitIndex + 1].inventory,
     equippedItemIndex |-> units[selectedUnitIndex + 1].equippedItemIndex,
     edits |-> "none"]

\* What the confirm key in the inventory menu adds to the trail's edits: a
\* confirmed drop ("drop", which stays), or a confirm on an item row
\* ("equip").
EditsAfterConfirm ==
    IF showDropConfirmation
    THEN "drop"
    ELSE IF /\ inventoryUnitIndex >= 0
            /\ selectedInventoryIndex < Len(units[inventoryUnitIndex + 1].inventory)
            /\ moveTrail.edits = "none"
    THEN "equip"
    ELSE moveTrail.edits

\* The trail after a key. A confirm key on a tile in move range with a unit
\* selected starts it (phase "moved"); further keys inside the menus keep it
\* (phase "menu") and record the edits confirmed in the inventory menu; a
\* cancel key in the action menu completes it (phase "cancelled" right
\* after the move, "reverted" later); anything else erases it.
TrailAfter(key) ==
    IF /\ key = "RETURN" /\ ~showInventoryMenu /\ ~showActionMenu
       /\ HasSelectedUnit /\ IsInMoveRange(cursorX, cursorY)
    THEN TrailStart
    ELSE IF moveTrail.phase \in {"moved", "menu"} /\ showInventoryMenu
    THEN [moveTrail EXCEPT !.phase = "menu",
                           !.edits = IF key = "RETURN" THEN EditsAfterConfirm ELSE @]
    ELSE IF moveTrail.phase \in {"moved", "menu"} /\ showActionMenu
    THEN IF key \in {"ESCAPE", "X"}
         THEN IF moveTrail.phase = "moved"
              THEN [moveTrail EXCEPT !.phase = "cancelled"]
              ELSE [moveTrail EXCEPT !.phase = "reverted"]
         ELSE IF key = "RETURN" /\ selectedActionIndex = 1
         THEN NoTrail
         ELSE [moveTrail EXCEPT !.phase = "menu"]
    ELSE NoTrail

\* --------------------------------------------------------------------------
\* Specification
\* --------------------------------------------------------------------------

TitleStep == HandleTitleSelection /\ moveTrail' = NoTrail /\ UNCHANGED probe

KeyStep(key) == HandleKeyDown(key) /\ moveTrail' = TrailAfter(key) /\ UNCHANGED probe

Next == TitleStep \/ \E key \in Keys : KeyStep(key)

Spec == Init /\ [][Next]_vars

\* The host of the second specification also calls the public method
\* MapManager::ConfirmMove directly from the normal map controls (no menu
\* showing), whether or not a unit is selected.
ApiConfirmMove ==
    /\ gameState = "STATE_MAP"
    /\ ~showInventoryMenu
    /\ ~showActionMenu
    /\ ConfirmMove
    /\ UNCHANGED <<mapFile, gameState>>
    /\ moveTrail' = IF HasSelectedUnit /\ IsInMoveRange(cursorX, cursorY)
                    THEN TrailStart
                    ELSE moveTrail
    /\ UNCHANGED probe

NextApi == Next \/ ApiConfirmMove

SpecApi == Init /\ [][NextApi]_vars

\* --------------------------------------------------------------------------
\* Specification of the equipment resolver: one call of CanUnitWieldWeapon
\* on a unit and a weapon built the way LoadMap and the inventory menu
\* build them
\* --------------------------------------------------------------------------

\* Unit ids, class ids and weapon ids the call is made with, and the data
\* files loaded (or not) before it.
ProbeUnitIds == {"alvis", "brom", "celia", ""}

ProbeClassIds == {"lord", "lord_f", "fighter", "soldier", "knight", "Lord", ""}

ProbeWeaponIds ==
    {"iron_axe", "iron_sword", "twin", "alvis_blade", "nobody_blade", "flame_lance",
     "rusty_fork"}

\* The unit of the call: its className is what LoadMap stores (line 245).
ProbeUnit ==
    [unitId |-> probe.unitId,
     className |-> GetClassDisplayName(ClassTable(probe.classes), probe.classId)]

\* The weapon tables of the calls: data/weapons.json as read by LoadMap, the
\* same file with only its generic partition or without it, an empty object
\* ("empty.json") and the member before any load ("null").
ProbeWeaponTables ==
    {"weapons.json", "generic_only.json", "no_generic.json", "empty.json", "null"}

\* The weapon of the call, resolved as ConfirmInventoryAction resolves it.
ProbeWeapon == GetWeaponData(WeaponTable(probe.weapons), probe.weaponId)

InitWield ==
    /\ mapFile = MissingFile
    /\ Constructed
    /\ moveTrail = NoTrail
    /\ probe \in [unitId : ProbeUnitIds, classId : ProbeClassIds,
                   weaponId : ProbeWeaponIds, weapons : ProbeWeaponTables,
                   classes : {"classes.json", "null"}, done : {FALSE}, result : {FALSE},
                   weapon : {DefaultWeaponData("")}]

\* The call itself.
ProbeWield ==
    /\ ~probe.done
    /\ probe' = [probe EXCEPT
                    !.done = TRUE,
                    !.weapon = ProbeWeapon,
                    !.result = CanUnitWieldWeapon(ClassTable(probe.classes),
                                                  ProbeUnit, ProbeWeapon)]
    /\ UNCHANGED <<engineVars, moveTrail>>

SpecWield == InitWield /\ [][ProbeWield]_vars

\* --------------------------------------------------------------------------
\* Fourth specification: the same host on maps larger than the screen
\* --------------------------------------------------------------------------

\* A map file whose "tile_size" key is ts (LoadMap line 156)
WithTileSize(file, ts) == [file EXCEPT !.tile_size = ts]

\* Maps without units that exceed the 1920x1080 screen in both directions at
\* scale 3: 22x13 tiles of 32 px, 12x7 tiles of 64 px, 7x4 tiles of 128 px.
ScrollFiles ==
    { WithTileSize(MapFile(22, 13, <<>>, 0), 32),
      WithTileSize(MapFile(12, 7, <<>>, 0), 64),
      WithTileSize(MapFile(7, 4, <<>>, 0), 128) }

InitScroll ==
    /\ mapFile \in ScrollFiles
    /\ Constructed
    /\ moveTrail = NoTrail
    /\ probe = NoProbe

SpecScroll == InitScroll /\ [][Next]_vars

\* Maps of 10x6 tiles of 64 px (1920x1152 px at scale 3, as wide as the
\* screen and higher) with one player unit in the top-left corner: alvis
\* with the largest mov stat of the model, or a unit whose id is not in
\* units.json and so keeps the default mov.
PanFiles ==
    { WithTileSize(MapFile(10, 6, << Placement("player", "alvis", 0, 0) >>, MaxMov), 64),
      WithTileSize(MapFile(10, 6, << Placement("player", "stranger", 0, 0) >>, 0), 64) }

InitPan ==
    /\ mapFile \in PanFiles
    /\ Constructed
    /\ moveTrail = NoTrail
    /\ probe = NoProbe

SpecPan == InitPan /\ [][Next]_vars

\* --------------------------------------------------------------------------
\* Vocabulary of the properties
\* --------------------------------------------------------------------------

\* The five interaction states as flag patterns; any other pattern is
\* "Undefined".
InteractionState ==
    CASE selectedUnitIndex < 0 /\ ~showActionMenu /\ ~showInventoryMenu
            /\ ~showDropConfirmation -> "Idle"
      [] selectedUnitIndex >= 0 /\ ~showActionMenu /\ ~showInventoryMenu
            /\ ~showDropConfirmation -> "Selected"
      [] selectedUnitIndex >= 0 /\ showActionMenu /\ ~showInventoryMenu
            /\ ~showDropConfirmation -> "ActionMenu"
      [] selectedUnitIndex >= 0 /\ ~showActionMenu /\ showInventoryMenu
            /\ ~showDropConfirmation -> "InventoryMenu"
      [] selectedUnitIndex >= 0 /\ ~showActionMenu /\ showInventoryMenu
            /\ showDropConfirmation -> "DropConfirm"
      [] OTHER -> "Undefined"

\* The map's tiles
MapTiles == Tiles(mapWidth, mapHeight)

\* The selected unit (only read where a unit is selected)
SelectedUnit == units[selectedUnitIndex + 1]

\* Position of the unit with 0-based index i
UnitPos(i) == <<units[i + 1].x, units[i + 1].y>>

\* A unit other than the one with 0-based index i stands on tile t
OccupiedByOther(t, i) ==
    \E j \in 0..(Len(units) - 1) : j # i /\ UnitPos(j) = t

\* A sequence lists no element twice
NoDuplicates(s) == \A i, j \in 1..Len(s) : s[i] = s[j] => i = j

\* --------------------------------------------------------------------------
\* C1: ConfirmMove followed immediately by CancelActionMenu puts the
\* selected unit back on exactly the tile it stood on before ConfirmMove.
\* --------------------------------------------------------------------------
C1_MoveThenCancelRestoresPosition ==
    moveTrail.phase = "cancelled" =>
        /\ selectedUnitIndex = moveTrail.unit
        /\ UnitPos(moveTrail.unit) = moveTrail.from

\* The pair has run for a move to another tile.
C1_Witness ==
    /\ moveTrail.phase = "cancelled"
    /\ moveTrail.from # moveTrail.to

\* --------------------------------------------------------------------------
\* C2: the interaction starts in Idle, and one input event either keeps the
\* interaction state or takes one of the nine listed transitions; no other
\* transition (and no flag pattern outside the five states) is reachable.
\* --------------------------------------------------------------------------
ListedTransitions ==
    { <<"Idle", "Selected">>, <<"Selected", "Idle">>, <<"Selected", "ActionMenu">>,
      <<"ActionMenu", "InventoryMenu">>, <<"ActionMenu", "Idle">>,
      <<"ActionMenu", "Selected">>, <<"InventoryMenu", "DropConfirm">>,
      <<"InventoryMenu", "ActionMenu">>, <<"DropConfirm", "InventoryMenu">> }

C2_OnlyListedTransitions ==
    /\ InteractionState = "Idle"
    /\ [][\/ InteractionState' = InteractionState
          \/ <<InteractionState, InteractionState'>> \in ListedTransitions]_vars

\* A unit that went Idle -> Selected -> ActionMenu -> InventoryMenu ->
\* DropConfirm -> InventoryMenu -> ActionMenu -> Idle: it has dropped an item
\* and waited.
C2_Witness ==
    /\ InteractionState = "Idle"
    /\ \E i \in 1..Len(units) :
          /\ units[i].hasMoved
          /\ units[i].unitId = "alvis"
          /\ units[i].inventory = <<>>

\* --------------------------------------------------------------------------
\* C3: whenever the inventory menu is shown the action menu is hidden, and
\* whenever the drop confirmation is shown the inventory menu is shown.
\* --------------------------------------------------------------------------
C3_MenusExclusive ==
    /\ showInventoryMenu => ~showActionMenu
    /\ showDropConfirmation => showInventoryMenu

\* The drop confirmation is up over the inventory menu.
C3_Witness == showDropConfirmation /\ showInventoryMenu /\ gameState = "STATE_MAP"

\* --------------------------------------------------------------------------
\* C4: after CalculateMovementRange, moveRangeTiles is exactly the set of
\* in-map tiles at Manhattan distance <= mov from the selected unit that no
\* other unit occupies (the unit's own tile included), each listed once.
\* --------------------------------------------------------------------------
C4_MovementRangeExact ==
    InteractionState = "Selected" =>
        /\ Range(moveRangeTiles) =
              {t \in MapTiles :
                  /\ Manhattan(t[1], t[2], SelectedUnit.x, SelectedUnit.y) <= SelectedUnit.mov
                  /\ (t = UnitPos(selectedUnitIndex) \/ ~OccupiedByOther(t, selectedUnitIndex))}
        /\ NoDuplicates(moveRangeTiles)

\* A unit is selected and another unit blocks a tile inside its reach.
C4_Witness ==
    /\ InteractionState = "Selected"
    /\ Len(moveRangeTiles) > 1
    /\ \E t \in MapTiles :
          /\ t # UnitPos(selectedUnitIndex)
          /\ Manhattan(t[1], t[2], SelectedUnit.x, SelectedUnit.y) <= SelectedUnit.mov
          /\ OccupiedByOther(t, selectedUnitIndex)

\* --------------------------------------------------------------------------
\* C5: after CalculateAttackRange, attackRangeTiles is exactly the set of
\* in-map tiles that are not in the movement-range set and lie at Manhattan
\* distance 1..2 from some tile of the movement-range set, each listed once.
\* --------------------------------------------------------------------------
C5_AttackRangeIsHaloOfMoveSet ==
    InteractionState = "Selected" =>
        /\ Range(attackRangeTiles) =
              {t \in MapTiles :
                  /\ t \notin Range(moveRangeTiles)
                  /\ \E m \in Range(moveRangeTiles) :
                        /\ Manhattan(m[1], m[2], t[1], t[2]) >= 1
                        /\ Manhattan(m[1], m[2], t[1], t[2]) <= 2}
        /\ NoDuplicates(attackRangeTiles)

\* --------------------------------------------------------------------------
\* C6: with no other unit on the map, after SelectUnit the movement range
\* and the attack range are disjoint and together cover exactly the in-map
\* tiles within Manhattan distance mov + 2 of the unit; on the 5x5 map with
\* the unit at (2,2) and mov 2 they have 13 and 12 tiles.
\* --------------------------------------------------------------------------
C6_LoneUnitRanges ==
    (InteractionState = "Selected" /\ Len(units) = 1) =>
        /\ Range(moveRangeTiles) \cap Range(attackRangeTiles) = {}
        /\ Range(moveRangeTiles) \cup Range(attackRangeTiles) =
              {t \in MapTiles :
                  Manhattan(t[1], t[2], SelectedUnit.x, SelectedUnit.y) <= SelectedUnit.mov + 2}
        /\ (mapWidth = 5 /\ mapHeight = 5 /\ UnitPos(selectedUnitIndex) = <<2, 2>>
              /\ SelectedUnit.mov = 2) =>
                /\ Cardinality(Range(moveRangeTiles)) = 13
                /\ Len(moveRangeTiles) = 13
                /\ Cardinality(Range(attackRangeTiles)) = 12
                /\ Len(attackRangeTiles) = 12

\* The scenario: the lone unit of the 5x5 map is selected at (2,2).
C6_Witness ==
    /\ InteractionState = "Selected"
    /\ Len(units) = 1
    /\ mapWidth = 5 /\ mapHeight = 5
    /\ UnitPos(selectedUnitIndex) = <<2, 2>>
    /\ SelectedUnit.mov = 2
    /\ Len(attackRangeTiles) = 12

\* The 0-based indices of the units standing on tile t
UnitsAt(t) == {j \in 0..(Len(units) - 1) : UnitPos(j) = t}

\* The lowest index of a non-empty set of indices
Lowest(S) == CHOOSE i \in S : \A j \in S : i <= j

\* The first unit found on the cursor tile is an unmoved player unit
CursorOnSelectable ==
    /\ UnitsAt(<<cursorX, cursorY>>) # {}
    /\ units[Lowest(UnitsAt(<<cursorX, cursorY>>)) + 1].type = "player"
    /\ ~units[Lowest(UnitsAt(<<cursorX, cursorY>>)) + 1].hasMoved

\* --------------------------------------------------------------------------
\* C7: SelectUnit changes state only when the first unit found at the cursor
\* tile is a player unit that has not moved; on an enemy unit, a moved
\* player unit or an empty tile it leaves selectedUnitIndex at none and
\* every other state variable unchanged.
\* --------------------------------------------------------------------------
SelectUnitCall ==
    /\ gameState = "STATE_MAP"
    /\ InteractionState = "Idle"
    /\ KeyStep("RETURN")

C7_SelectUnitOnlyUnmovedPlayer ==
    [][SelectUnitCall =>
          IF CursorOnSelectable
          THEN selectedUnitIndex' = Lowest(UnitsAt(<<cursorX, cursorY>>))
          ELSE selectedUnitIndex' = -1 /\ UNCHANGED engineVars]_vars

\* Idle on the map with the cursor on a player unit that has already moved.
C7_Witness ==
    /\ gameState = "STATE_MAP"
    /\ InteractionState = "Idle"
    /\ UnitsAt(<<cursorX, cursorY>>) # {}
    /\ units[Lowest(UnitsAt(<<cursorX, cursorY>>)) + 1].type = "player"
    /\ units[Lowest(UnitsAt(<<cursorX, cursorY>>)) + 1].hasMoved

\* --------------------------------------------------------------------------
\* C8: ConfirmMove with no unit selected, or with the cursor on a tile for
\* which IsInMoveRange is false, changes nothing.
\* --------------------------------------------------------------------------
C8_ConfirmMoveRejectedIsNoOp ==
    [][(/\ ApiConfirmMove
        /\ (selectedUnitIndex < 0 \/ ~IsInMoveRange(cursorX, cursorY)))
          => UNCHANGED engineVars]_vars

\* A unit is selected and the cursor is inside its reach on a tile held by
\* another unit.
C8_Witness ==
    /\ gameState = "STATE_MAP"
    /\ InteractionState = "Selected"
    /\ ~IsInMoveRange(cursorX, cursorY)
    /\ Manhattan(cursorX, cursorY, SelectedUnit.x, SelectedUnit.y) <= SelectedUnit.mov
    /\ OccupiedByOther(<<cursorX, cursorY>>, selectedUnitIndex)

\* --------------------------------------------------------------------------
\* C9: a successful ConfirmMove records the unit's pre-move position in
\* (originalUnitX, originalUnitY), puts the unit on the cursor tile, empties
\* both range lists and shows the action menu with option 0 selected, the
\* unit staying selected and its hasMoved flag false.
\* --------------------------------------------------------------------------
C9_ConfirmMoveEffect ==
    moveTrail.phase = "moved" =>
        /\ <<originalUnitX, originalUnitY>> = moveTrail.from
        /\ selectedUnitIndex = moveTrail.unit
        /\ UnitPos(moveTrail.unit) = moveTrail.to
        /\ <<cursorX, cursorY>> = moveTrail.to
        /\ moveRangeTiles = <<>>
        /\ attackRangeTiles = <<>>
        /\ showActionMenu
        /\ selectedActionIndex = 0
        /\ ~units[moveTrail.unit + 1].hasMoved

\* ConfirmMove has just sent a unit to another tile.
C9_Witness ==
    /\ moveTrail.phase = "moved"
    /\ moveTrail.from # moveTrail.to

\* --------------------------------------------------------------------------
\* C10: ConfirmAction with Wait selected in the ActionMenu state sets the
\* commanded unit's hasMoved, leaves it on the tile chosen by ConfirmMove,
\* deselects it and hides the action menu (Idle); no other unit is modified.
\* --------------------------------------------------------------------------
WaitCall ==
    /\ gameState = "STATE_MAP"
    /\ InteractionState = "ActionMenu"
    /\ selectedActionIndex = 1
    /\ KeyStep("RETURN")

C10_WaitFinalizesUnit ==
    [][WaitCall =>
          /\ moveTrail.phase = "menu"
          /\ moveTrail.unit = selectedUnitIndex
          /\ Len(units') = Len(units)
          /\ units'[selectedUnitIndex + 1].hasMoved
          /\ <<units'[selectedUnitIndex + 1].x, units'[selectedUnitIndex + 1].y>> = moveTrail.to
          /\ \A j \in 0..(Len(units) - 1) :
                j # selectedUnitIndex => units'[j + 1] = units[j + 1]
          /\ selectedUnitIndex' = -1
          /\ ~showActionMenu'
          /\ InteractionState' = "Idle"]_vars

\* A unit has waited on a tile other than the one the map file put it on.
C10_Witness ==
    /\ InteractionState = "Idle"
    /\ \E i \in 1..Len(units) :
          /\ units[i].hasMoved
          /\ <<units[i].x, units[i].y>> # <<mapFile.units[i].x, mapFile.units[i].y>>

\* The unit of the trail holds the inventory and the equipped index it had
\* when ConfirmMove sent it off.
KitAsAtConfirmMove ==
    /\ units[moveTrail.unit + 1].inventory = moveTrail.inventory
    /\ units[moveTrail.unit + 1].equippedItemIndex = moveTrail.equippedItemIndex

\* --------------------------------------------------------------------------
\* C11: if between ConfirmMove and CancelActionMenu the player only equipped
\* items through the inventory menu (no confirmed drop), then after
\* CancelActionMenu the unit's equippedItemIndex and inventory equal their
\* values at the time of ConfirmMove.
\* --------------------------------------------------------------------------
C11_CancelDiscardsEquips ==
    (moveTrail.phase = "reverted" /\ moveTrail.edits = "equip") => KitAsAtConfirmMove

\* --------------------------------------------------------------------------
\* C12: after a drop is confirmed, CloseInventory and then CancelActionMenu,
\* the unit's inventory and equippedItemIndex equal their values at the time
\* of ConfirmMove (the dropped item is back).
\* --------------------------------------------------------------------------
C12_CancelRevertsDrop ==
    (moveTrail.phase = "reverted" /\ moveTrail.edits = "drop") => KitAsAtConfirmMove

\* The unit whose inventory is shown (only read while the menu is up)
InventoryUnit == units[inventoryUnitIndex + 1]

\* The backup kept by the inventory menu equals the unit's live inventory
\* and equipped index.
SnapshotIsLive ==
    /\ originalInventory = InventoryUnit.inventory
    /\ originalEquippedIndex = InventoryUnit.equippedItemIndex

\* The cancel key in the InventoryMenu state: the host calls CloseInventory.
CloseInventoryCall ==
    /\ gameState = "STATE_MAP"
    /\ InteractionState = "InventoryMenu"
    /\ (KeyStep("ESCAPE") \/ KeyStep("X"))

\* --------------------------------------------------------------------------
\* C13: in every reachable InventoryMenu state the snapshot CloseInventory
\* restores equals the unit's live inventory and equipped index, and
\* CloseInventory leaves the unit's inventory and equippedItemIndex (and
\* every unit) exactly as they were just before the call: equips and
\* confirmed drops committed while the menu was open survive it.
\* --------------------------------------------------------------------------
C13_CloseInventoryKeepsKit ==
    /\ [](showInventoryMenu => SnapshotIsLive)
    /\ [][CloseInventoryCall => units' = units]_vars

\* Back in the action menu after a drop that re-equipped a later entry: the
\* unit carries fewer items than at ConfirmMove and holds a row other than
\* the first.
C13_Witness ==
    /\ InteractionState = "ActionMenu"
    /\ moveTrail.phase = "menu"
    /\ moveTrail.edits = "drop"
    /\ Len(SelectedUnit.inventory) < Len(moveTrail.inventory)
    /\ SelectedUnit.equippedItemIndex > 0

\* The weapon types of every class of the loaded table whose display name is
\* the unit's className
ClassWeaponTypes(unit) ==
    LET cd == ClassTable(classesData)
    IN  UNION {Range(cd[c][1].weapon_types) :
                 c \in {k \in DOMAIN cd : cd[k][1].name = unit.className}}

\* The weapon record behind the highlighted item row
HighlightedWeapon ==
    GetWeaponData(WeaponTable(weaponsData),
                  InventoryUnit.inventory[selectedInventoryIndex + 1])

\* The confirm key on an item row of the InventoryMenu state: the host calls
\* ConfirmInventoryAction.
EquipCall ==
    /\ gameState = "STATE_MAP"
    /\ InteractionState = "InventoryMenu"
    /\ selectedInventoryIndex < Len(InventoryUnit.inventory)
    /\ KeyStep("RETURN")

\* --------------------------------------------------------------------------
\* C14 (as stated): ConfirmInventoryAction on an item row whose weapon is a
\* non-PRF weapon of a type outside the unit's class weapon_types, or a PRF
\* weapon whose user differs from the unit's unitId, changes no state.
\* --------------------------------------------------------------------------
C14_UnwieldableEquipIsNoOp ==
    [][(/\ EquipCall
        /\ IF HighlightedWeapon.isPRF
           THEN HighlightedWeapon.user # InventoryUnit.unitId
           ELSE HighlightedWeapon.type \notin ClassWeaponTypes(InventoryUnit))
          => UNCHANGED engineVars]_vars

\* --------------------------------------------------------------------------
\* C14 (amended): the same for a non-PRF weapon of a type outside the unit's
\* class weapon_types, a PRF weapon that names a user other than the unit,
\* and a PRF weapon that names no user and is of a type outside the unit's
\* class weapon_types. (A PRF weapon that names no user is equipped by any
\* unit whose class allows its type.)
\* --------------------------------------------------------------------------
C14_RejectedEquipIsNoOp ==
    [][(/\ EquipCall
        /\ IF HighlightedWeapon.isPRF /\ HighlightedWeapon.user # ""
           THEN HighlightedWeapon.user # InventoryUnit.unitId
           ELSE HighlightedWeapon.type \notin ClassWeaponTypes(InventoryUnit))
          => UNCHANGED engineVars]_vars

\* The highlighted row is a PRF weapon named for another unit, while another
\* row is equipped.
C14_Witness ==
    /\ gameState = "STATE_MAP"
    /\ InteractionState = "InventoryMenu"
    /\ selectedInventoryIndex < Len(InventoryUnit.inventory)
    /\ HighlightedWeapon.isPRF
    /\ HighlightedWeapon.user \notin {"", InventoryUnit.unitId}
    /\ InventoryUnit.equippedItemIndex # selectedInventoryIndex

\* The confirm key in the DropConfirm state: the host calls
\* ConfirmInventoryAction, which carries the drop out.
DropCall ==
    /\ gameState = "STATE_MAP"
    /\ InteractionState = "DropConfirm"
    /\ KeyStep("RETURN")

\* The 0-based indices of the entries of inv the unit can wield
WieldableRows(unit, inv) ==
    {i \in 0..(Len(inv) - 1) : CanWieldItem(unit, inv[i + 1])}

\* --------------------------------------------------------------------------
\* C15: confirming a drop removes exactly one inventory entry, the one at
\* the previous equippedItemIndex (the highlighted row is the Drop row, not
\* an entry), keeps the order of the remaining entries, and sets
\* equippedItemIndex to the smallest index of the remaining inventory whose
\* weapon the unit can wield, or to -1 if there is none.
\* --------------------------------------------------------------------------
C15_DropRemovesEquipped ==
    [][DropCall =>
          LET unit == InventoryUnit
              e == unit.equippedItemIndex
              after == units'[inventoryUnitIndex + 1]
              ok == WieldableRows(unit, after.inventory)
          IN  /\ e >= 0 /\ e < Len(unit.inventory)
              /\ selectedInventoryIndex = Len(unit.inventory)
              /\ after.inventory = SubSeq(unit.inventory, 1, e)
                                     \o SubSeq(unit.inventory, e + 2, Len(unit.inventory))
              /\ IF ok = {}
                 THEN after.equippedItemIndex = -1
                 ELSE /\ after.equippedItemIndex \in ok
                      /\ \A j \in ok : after.equippedItemIndex <= j
              /\ Len(units') = Len(units)
              /\ \A j \in 0..(Len(units) - 1) :
                    j # inventoryUnitIndex => units'[j + 1] = units[j + 1]]_vars

\* After one drop the unit holds the second of its remaining entries, the
\* first being one it cannot wield.
C15_Witness ==
    /\ InteractionState = "InventoryMenu"
    /\ moveTrail.edits = "drop"
    /\ Len(InventoryUnit.inventory) = Len(moveTrail.inventory) - 1
    /\ InventoryUnit.equippedItemIndex = 1
    /\ 0 \notin WieldableRows(InventoryUnit, InventoryUnit.inventory)

\* The confirm key on the Drop row of the InventoryMenu state
DropRowCall ==
    /\ gameState = "STATE_MAP"
    /\ InteractionState = "InventoryMenu"
    /\ selectedInventoryIndex = Len(InventoryUnit.inventory)
    /\ KeyStep("RETURN")

\* --------------------------------------------------------------------------
\* C16: ConfirmInventoryAction on the Drop row when the unit has no equipped
\* item, in particular when its inventory is empty, opens no drop
\* confirmation and changes no state.
\* --------------------------------------------------------------------------
C16_DropRowWithoutEquippedIsNoOp ==
    [][(DropRowCall /\ InventoryUnit.equippedItemIndex < 0)
          => (UNCHANGED engineVars /\ ~showDropConfirmation')]_vars

\* The inventory menu of a unit that carries nothing: its only row is Drop.
C16_Witness ==
    /\ gameState = "STATE_MAP"
    /\ InteractionState = "InventoryMenu"
    /\ InventoryUnit.inventory = <<>>
    /\ InventoryUnit.equippedItemIndex = -1
    /\ selectedInventoryIndex = 0

\* The weapon types of every class of the table cd whose display name is
\* className
TypesAllowed(cd, className) ==
    UNION {Range(cd[c][1].weapon_types) :
             c \in {k \in DOMAIN cd : cd[k][1].name = className}}

\* --------------------------------------------------------------------------
\* C17 (as stated): for every PRF weapon record, whatever its user field,
\* and every unit, CanUnitWieldWeapon returns exactly
\* (weapon.user == unit.unitId), independent of the class.
\* --------------------------------------------------------------------------
C17_PrfIsOwnershipOnly ==
    (probe.done /\ ProbeWeapon.isPRF)
        => (probe.result <=> ProbeWeapon.user = ProbeUnit.unitId)

\* --------------------------------------------------------------------------
\* C17 (amended): for every PRF weapon record with a non-empty user and
\* every unit, CanUnitWieldWeapon returns exactly
\* (weapon.user == unit.unitId), independent of the class and of the class
\* table; a PRF record with an empty user is judged by the class rule of the
\* non-PRF weapons.
\* --------------------------------------------------------------------------
C17_NamedPrfIsOwnershipOnly ==
    (probe.done /\ ProbeWeapon.isPRF) =>
        IF ProbeWeapon.user # ""
        THEN probe.result <=> ProbeWeapon.user = ProbeUnit.unitId
        ELSE probe.result <=>
                ProbeWeapon.type \in TypesAllowed(ClassTable(probe.classes),
                                                  ProbeUnit.className)

\* The PRF sword of alvis was found wieldable by alvis as a Fighter, a class
\* without swords.
C17_Witness ==
    /\ probe.done
    /\ probe.result
    /\ ProbeWeapon.isPRF
    /\ ProbeWeapon.user = "alvis"
    /\ ProbeUnit.unitId = "alvis"
    /\ ProbeUnit.className = "Fighter"

\* --------------------------------------------------------------------------
\* C18: for every non-PRF weapon and every unit, CanUnitWieldWeapon returns
\* true iff the class table contains a class whose display name equals
\* unit.className and whose weapon_types contains weapon.type; with no such
\* class (also for a unit whose className is a raw class id) it is false.
\* --------------------------------------------------------------------------
C18_GenericIsClassRule ==
    (probe.done /\ ~ProbeWeapon.isPRF) =>
        (probe.result <=>
            \E c \in DOMAIN ClassTable(probe.classes) :
                /\ ClassTable(probe.classes)[c][1].name = ProbeUnit.className
                /\ ProbeWeapon.type \in Range(ClassTable(probe.classes)[c][1].weapon_types))

\* A lance was found wieldable by a unit of class id "lord": the sword class
\* shares its display name with a lance class.
C18_Witness ==
    /\ probe.done
    /\ probe.result
    /\ ~ProbeWeapon.isPRF
    /\ ProbeWeapon.type = "lance"
    /\ probe.classId = "lord"

\* The larger of 0 and n
AtLeastZero(n) == IF n < 0 THEN 0 ELSE n

\* --------------------------------------------------------------------------
\* C19: after any MoveCamera, for every map size, 0 <= cameraX <=
\* max(0, mapWidthPx - 1920) and 0 <= cameraY <= max(0, mapHeightPx - 1080);
\* a map smaller than the screen in a dimension keeps that coordinate at 0.
\* --------------------------------------------------------------------------
C19_CameraWithinMap ==
    /\ 0 <= cameraX
    /\ cameraX <= AtLeastZero(mapWidth * ScaledTileSize - ScreenWidth)
    /\ 0 <= cameraY
    /\ cameraY <= AtLeastZero(mapHeight * ScaledTileSize - ScreenHeight)

CursorKeys == {"LEFT", "RIGHT", "UP", "DOWN"}

\* The cursor keys reach MoveCursor only from the normal map controls
MoveCursorCall ==
    /\ gameState = "STATE_MAP"
    /\ ~showInventoryMenu
    /\ ~showActionMenu
    /\ \E key \in CursorKeys : KeyStep(key)

CursorScreenX == (cursorX * ScaledTileSize) - cameraX

CursorScreenY == (cursorY * ScaledTileSize) - cameraY

CursorTileInViewport ==
    /\ 0 <= CursorScreenX
    /\ CursorScreenX <= ScreenWidth - ScaledTileSize
    /\ 0 <= CursorScreenY
    /\ CursorScreenY <= ScreenHeight - ScaledTileSize

C21_CursorStaysInViewport ==
    [][MoveCursorCall /\ CursorTileInViewport => CursorTileInViewport']_vars

\* --------------------------------------------------------------------------
\* C22: ToggleUnitInfo never changes the selection stack (selectedUnitIndex,
\* both range sets, action-menu and inventory-menu state, unit data and
\* cursor are unchanged); it opens the overlay only when a unit stands on the
\* cursor tile, recording that unit's index, and closes it unconditionally
\* when it is already open.
\* --------------------------------------------------------------------------

\* TAB reaches ToggleUnitInfo only from the normal map controls
ToggleUnitInfoCall ==
    /\ gameState = "STATE_MAP"
    /\ ~showInventoryMenu
    /\ ~showActionMenu
    /\ KeyStep("TAB")

UnitOnCursor == \E i \in 0..(Len(units) - 1) : UnitPos(i) = <<cursorX, cursorY>>

C22_ToggleUnitInfoFrame ==
    [][ToggleUnitInfoCall =>
         /\ UNCHANGED <<selectedUnitIndex, rangeVars, actionVars, invVars, units,
                        cursorVars>>
         /\ showUnitInfo => (~showUnitInfo' /\ unitInfoIndex' = -1)
         /\ ~showUnitInfo =>
               /\ showUnitInfo' <=> UnitOnCursor
               /\ showUnitInfo' =>
                     /\ unitInfoIndex' \in 0..(Len(units) - 1)
                     /\ UnitPos(unitInfoIndex') = <<cursorX, cursorY>>
               /\ ~showUnitInfo' => unitInfoIndex' = unitInfoIndex]_vars

\* The overlay is open on a unit while another selection is in progress
C22_Witness ==
    /\ showUnitInfo
    /\ unitInfoIndex >= 0
    /\ HasSelectedUnit
    /\ Len(moveRangeTiles) > 0

\* --------------------------------------------------------------------------
\* C23: the map cancel action returns true exactly when a unit was selected,
\* and then deselects it; ESC leaves the map screen for the title only when
\* it is received with no unit selected and no menu open; while a unit is
\* selected or the action menu, the inventory menu or the drop confirmation
\* is open, no cancel input exits the map, and the X key never exits it.
\* --------------------------------------------------------------------------

NoMenuOpen == ~showActionMenu /\ ~showInventoryMenu /\ ~showDropConfirmation

\* X or ESC reaching the cancel callback from the normal map controls
CancelCall(key) ==
    /\ gameState = "STATE_MAP"
    /\ ~showInventoryMenu
    /\ ~showActionMenu
    /\ KeyStep(key)

C23_CancelNeverExitsWithSelection ==
    [][gameState = "STATE_MAP" =>
         /\ (~showInventoryMenu /\ ~showActionMenu) =>
               (onMapCancelActionResult <=> HasSelectedUnit)
         /\ (HasSelectedUnit /\ HasSelectedUnit' /\ ~showInventoryMenu /\ ~showActionMenu) =>
               \A key \in {"X", "ESCAPE"} : ~KeyStep(key)
         /\ (~HasSelectedUnit /\ NoMenuOpen /\ gameState' = "STATE_MAP") =>
               ~KeyStep("ESCAPE")
         /\ gameState' # "STATE_MAP" =>
               /\ gameState' = "STATE_TITLE"
               /\ KeyStep("ESCAPE")
               /\ ~KeyStep("X")
               /\ ~HasSelectedUnit
               /\ NoMenuOpen]_vars

\* Back on the title screen after a map with units was shown
C23_Witness ==
    /\ gameState = "STATE_TITLE"
    /\ Len(units) > 0
    /\ ~HasSelectedUnit

\* --------------------------------------------------------------------------
\* C24: when LoadMap reports failure the host does not enter the map state:
\* the game state is STATE_MAP only after a LoadMap call that returned true,
\* so map input is never processed on a map with width or height 0 or with
\* partially loaded data.
\* --------------------------------------------------------------------------

C24_MapStateOnlyAfterLoadSucceeded ==
    gameState = "STATE_MAP" => LoadMapResult(mapFile)

\* --------------------------------------------------------------------------
\* C25: GetWeaponData on an id that appears in none of the generic, prf and
\* attributed partitions returns a record with id = name = the requested id,
\* might, hit, crit, weight and durability all 0, an empty range and
\* isPRF = false; it never fails, also when the weapon table is empty or
\* lacks a partition.
\* --------------------------------------------------------------------------

\* The records of partition k of table wd, each with the type key it is
\* filed under; none when the table has no such partition.
PartitionRecords(wd, k) ==
    IF k \in DOMAIN wd
    THEN UNION { { [type |-> wd[k][t].type, rec |-> wd[k][t].weapons[n]] :
                     n \in 1..Len(wd[k][t].weapons) } : t \in 1..Len(wd[k]) }
    ELSE {}

IdInPartition(wd, k, weaponId) ==
    \E e \in PartitionRecords(wd, k) : e.rec.id = weaponId

ProbeTable == WeaponTable(probe.weapons)

ProbeIdUnknown ==
    \A k \in {"generic", "prf", "attributed"} :
        ~IdInPartition(ProbeTable, k, probe.weaponId)

C25_UnknownIdGivesDefaultRecord ==
    (probe.done /\ ProbeIdUnknown) =>
        /\ DOMAIN probe.weapon = DOMAIN DefaultWeaponData("")
        /\ probe.weapon.id = probe.weaponId
        /\ probe.weapon.name = probe.weaponId
        /\ probe.weapon.might = 0
        /\ probe.weapon.hit = 0
        /\ probe.weapon.crit = 0
        /\ probe.weapon.weight = 0
        /\ probe.weapon.durability = 0
        /\ probe.weapon.range = <<>>
        /\ probe.weapon.isPRF = FALSE

\* An id of the generic partition looked up in a table without that partition
C25_Witness ==
    /\ probe.done
    /\ probe.weapons = "no_generic.json"
    /\ probe.weaponId = "iron_sword"
    /\ probe.weapon.name = "iron_sword"
    /\ ProbeIdUnknown

\* --------------------------------------------------------------------------
\* C26: GetWeaponData searches the partitions in the order generic, prf,
\* attributed and returns the first record whose id matches: an id present
\* in both generic and prf yields the generic record with isPRF = false and
\* no user restriction, and isPRF is true only for a record found in the prf
\* partition.
\* --------------------------------------------------------------------------

\* The returned record carries the data of some record of partition k
FromPartition(wd, k, weaponId, weapon) ==
    \E e \in PartitionRecords(wd, k) :
        /\ e.rec.id = weaponId
        /\ weapon.id = weaponId
        /\ weapon.name = e.rec.name
        /\ weapon.type = e.type
        /\ weapon.might = e.rec.might
        /\ weapon.range = e.rec.range
        /\ weapon.user = IF k = "prf" THEN e.rec.user ELSE ""
        /\ weapon.isPRF = (k = "prf")

C26_FirstPartitionWins ==
    probe.done =>
        LET inGeneric == IdInPartition(ProbeTable, "generic", probe.weaponId)
            inPrf == IdInPartition(ProbeTable, "prf", probe.weaponId)
            inAttributed == IdInPartition(ProbeTable, "attributed", probe.weaponId)
        IN  /\ inGeneric =>
                FromPartition(ProbeTable, "generic", probe.weaponId, probe.weapon)
            /\ (~inGeneric /\ inPrf) =>
                FromPartition(ProbeTable, "prf", probe.weaponId, probe.weapon)
            /\ (~inGeneric /\ ~inPrf /\ inAttributed) =>
                FromPartition(ProbeTable, "attributed", probe.weaponId, probe.weapon)
            /\ probe.weapon.isPRF => (inPrf /\ ~inGeneric)

\* The id listed in both generic and prf resolved to its generic record
C26_Witness ==
    /\ probe.done
    /\ probe.weaponId = "twin"
    /\ IdInPartition(ProbeTable, "generic", "twin")
    /\ IdInPartition(ProbeTable, "prf", "twin")
    /\ probe.weapon.name = "Twin (generic)"
    /\ ~probe.weapon.isPRF
    /\ probe.weapon.user = ""

\* --------------------------------------------------------------------------
\* C27: IsInMoveRange(x, y) is true iff (x, y) is in moveRangeTiles or a unit
\* is selected and (x, y) equals that unit's current position; so it is true
\* for the selected unit's own tile in every state with a selection, and
\* false for every tile when no unit is selected.
\* --------------------------------------------------------------------------

\* The tiles of the map and one ring of coordinates around it
QueryTiles == ((-1)..mapWidth) \X ((-1)..mapHeight)

C27_IsInMoveRangeMeaning ==
    /\ \A t \in QueryTiles :
          IsInMoveRange(t[1], t[2]) <=>
              \/ \E n \in 1..Len(moveRangeTiles) : moveRangeTiles[n] = t
              \/ HasSelectedUnit /\ t = UnitPos(selectedUnitIndex)
    /\ HasSelectedUnit =>
          IsInMoveRange(SelectedUnit.x, SelectedUnit.y)
    /\ ~HasSelectedUnit =>
          \A t \in QueryTiles : ~IsInMoveRange(t[1], t[2])

\* The action menu is open: the range list was cleared by ConfirmMove, and
\* the moved unit's tile still answers true
C27_Witness ==
    /\ HasSelectedUnit
    /\ showActionMenu
    /\ moveRangeTiles = <<>>
    /\ <<SelectedUnit.x, SelectedUnit.y>> # <<originalUnitX, originalUnitY>>
    /\ IsInMoveRange(SelectedUnit.x, SelectedUnit.y)

\* --------------------------------------------------------------------------
\* C28: in every reachable state every unit's grid position lies within
\* [0, mapWidth) x [0, mapHeight): no sequence of SelectUnit, ConfirmMove,
\* CancelActionMenu and Wait moves a unit off the map, for every map
\* descriptor the loader accepts.
\* --------------------------------------------------------------------------

C28_UnitsOnMap ==
    \A i \in 0..(Len(units) - 1) : UnitPos(i) \in MapTiles

\* --------------------------------------------------------------------------
\* C29: the range sets track the selection: whenever no unit is selected both
\* moveRangeTiles and attackRangeTiles are empty, and whenever a unit is
\* selected with no menu open (Selected state) both sets equal what
\* CalculateMovementRange and CalculateAttackRange would return for the
\* current positions of all units (never stale).
\* --------------------------------------------------------------------------

C29_RangesTrackSelection ==
    /\ ~HasSelectedUnit =>
          /\ moveRangeTiles = <<>>
          /\ attackRangeTiles = <<>>
    /\ InteractionState = "Selected" =>
          /\ moveRangeTiles = CalculateMovementRange(units, selectedUnitIndex)
          /\ attackRangeTiles = CalculateAttackRange(units, selectedUnitIndex)

\* Back in the Selected state after a move was cancelled from the action
\* menu, with the ranges of the restored position
C29_Witness ==
    /\ InteractionState = "Selected"
    /\ moveTrail.phase = "cancelled"
    /\ moveTrail.from # moveTrail.to
    /\ Len(moveRangeTiles) > 1
    /\ Len(attackRangeTiles) > 0

\* --------------------------------------------------------------------------
\* C30: whenever the inventory menu is open,
\* 0 <= selectedInventoryIndex <= inventory.length of the unit under edit
\* (inventory.length being the Drop row), after any sequence of
\* MoveInventorySelection(+1/-1) with wrap-around, equips and confirmed drops
\* that shrink the inventory.
\* --------------------------------------------------------------------------

C30_InventorySelectionInRange ==
    showInventoryMenu =>
        /\ inventoryUnitIndex \in 0..(Len(units) - 1)
        /\ 0 <= selectedInventoryIndex
        /\ selectedInventoryIndex <= Len(InventoryUnit.inventory)

\* After a confirmed drop the highlight sits on the Drop row of the shorter
\* inventory
C30_Witness ==
    /\ showInventoryMenu
    /\ ~showDropConfirmation
    /\ moveTrail.edits = "drop"
    /\ Len(InventoryUnit.inventory) >= 1
    /\ selectedInventoryIndex = Len(InventoryUnit.inventory)

\* --------------------------------------------------------------------------
\* C31: from DropConfirm both the confirm input and the cancel input lead
\* back to InventoryMenu with the drop confirmation closed (confirm executes
\* the drop, cancel changes no unit data), and up/down navigation inputs
\* received during DropConfirm change neither selectedInventoryIndex nor any
\* other state.
\* --------------------------------------------------------------------------

InDropConfirm == gameState = "STATE_MAP" /\ InteractionState = "DropConfirm"

C31_DropConfirmLeadsToInventoryMenu ==
    /\ [][(InDropConfirm /\ KeyStep("RETURN")) =>
            /\ InteractionState' = "InventoryMenu"
            /\ inventoryUnitIndex' = inventoryUnitIndex
            /\ Len(units'[inventoryUnitIndex + 1].inventory)
                  = Len(InventoryUnit.inventory) - 1]_vars
    /\ [][\A key \in {"X", "ESCAPE"} :
            (InDropConfirm /\ KeyStep(key)) =>
                /\ InteractionState' = "InventoryMenu"
                /\ UNCHANGED <<units, inventoryUnitIndex, selectedInventoryIndex,
                               originalInventory, originalEquippedIndex>>]_vars
    /\ [][\A key \in {"UP", "DOWN"} :
            (InDropConfirm /\ KeyStep(key)) => UNCHANGED engineVars]_vars

\* The inventory menu after a confirmed drop: the confirmation is closed and
\* the inventory is shorter than at the move
C31_Witness ==
    /\ InteractionState = "InventoryMenu"
    /\ moveTrail.edits = "drop"
    /\ Len(InventoryUnit.inventory) < Len(moveTrail.inventory)
    /\ Len(InventoryUnit.inventory) >= 1

\* --------------------------------------------------------------------------
\* C32: from every reachable ActionMenu state, whether entered directly by
\* ConfirmMove or re-entered by CloseInventory after any number of
\* Items/equip/drop/close rounds, CancelActionMenu puts the unit back on the
\* tile it occupied when it was selected, puts the cursor on that tile, hides
\* the action menu and keeps the unit selected: inventory operations never
\* alter the recorded original position.
\* --------------------------------------------------------------------------

C32_CancelReturnsToSelectionTile ==
    /\ InteractionState \in {"ActionMenu", "InventoryMenu", "DropConfirm"} =>
          /\ moveTrail.phase \in {"moved", "menu"}
          /\ moveTrail.unit = selectedUnitIndex
          /\ <<originalUnitX, originalUnitY>> = moveTrail.from
    /\ moveTrail.phase \in {"cancelled", "reverted"} =>
          /\ InteractionState = "Selected"
          /\ selectedUnitIndex = moveTrail.unit
          /\ UnitPos(moveTrail.unit) = moveTrail.from
          /\ <<cursorX, cursorY>> = moveTrail.from
          /\ ~showActionMenu

\* The move was cancelled from an action menu re-entered after a drop in the
\* inventory menu
C32_Witness ==
    /\ moveTrail.phase = "reverted"
    /\ moveTrail.edits = "drop"
    /\ moveTrail.from # moveTrail.to
    /\ UnitPos(moveTrail.unit) = moveTrail.from
    /\ Len(SelectedUnit.inventory) < Len(moveTrail.inventory)

\* --------------------------------------------------------------------------
\* C33: input dispatch priority: while the inventory menu is open every key
\* is handled only by the inventory handler, and while the action menu is
\* open only by the action-menu handler; in both cases directional keys never
\* move the cursor or camera, the confirm key never calls SelectUnit or
\* ConfirmMove, the cancel key never calls CancelSelection, and Tab never
\* toggles the unit-info overlay.
\* --------------------------------------------------------------------------

\* The map screen while one of the two menus shows
MenuShowing ==
    /\ gameState = "STATE_MAP"
    /\ showInventoryMenu \/ showActionMenu

UnitPositions(us) == [i \in 1..Len(us) |-> <<us[i].x, us[i].y>>]

\* C33: while a menu shows, no step carries the mark of one of the normal
\* map controls under the key that would call it: cursor or
\* camera moved or a unit changed (MoveCursor); a unit moved, or the recorded
\* origin, the ranges or the cursor changed (SelectUnit, ConfirmMove); the
\* selection changed (CancelSelection); anything changed (ToggleUnitInfo and
\* the keys no menu handler reads).
C33_MenusCaptureInput ==
    [][MenuShowing =>
         /\ gameState' = "STATE_MAP"
         /\ UNCHANGED <<cameraVars, infoVars>>
         /\ showInventoryMenu =>
               UNCHANGED <<selectedActionIndex, cursorVars, selectedUnitIndex,
                           rangeVars, originVars>>
         /\ (cursorVars' # cursorVars \/ units' # units) =>
               \A key \in {"UP", "DOWN"} : ~KeyStep(key)
         /\ (\/ UnitPositions(units') # UnitPositions(units)
             \/ originVars' # originVars
             \/ rangeVars' # rangeVars
             \/ cursorVars' # cursorVars) => ~KeyStep("RETURN")
         /\ selectedUnitIndex' # selectedUnitIndex =>
               \A key \in {"X", "ESCAPE"} : ~KeyStep(key)
         /\ engineVars' # engineVars =>
               \A key \in {"LEFT", "RIGHT", "TAB", "OTHER"} : ~KeyStep(key)]_vars

\* The down key moved the highlighted row of the action menu, not the cursor
C33_Witness ==
    /\ InteractionState = "ActionMenu"
    /\ selectedActionIndex = 1
    /\ <<cursorX, cursorY>> = UnitPos(selectedUnitIndex)
    /\ moveTrail.phase = "menu"

\* --------------------------------------------------------------------------
\* C34: no stored index is ever dangling in a reachable state driven through
\* HandleMapInput: action menu shown implies selectedUnitIndex is a valid
\* unit index; inventory menu shown implies inventoryUnitIndex =
\* selectedUnitIndex and is valid; unit-info shown iff unitInfoIndex is a
\* valid unit index; and every unit always has
\* -1 <= equippedItemIndex < inventory.length.
\* --------------------------------------------------------------------------

ValidUnitIndex(i) == i \in 0..(Len(units) - 1)

C34_NoDanglingIndex ==
    /\ showActionMenu => ValidUnitIndex(selectedUnitIndex)
    /\ showInventoryMenu =>
          /\ inventoryUnitIndex = selectedUnitIndex
          /\ ValidUnitIndex(inventoryUnitIndex)
    /\ showUnitInfo <=> ValidUnitIndex(unitInfoIndex)
    /\ HasSelectedUnit => ValidUnitIndex(selectedUnitIndex)
    /\ \A i \in 1..Len(units) :
          /\ -1 <= units[i].equippedItemIndex
          /\ units[i].equippedItemIndex < Len(units[i].inventory)

\* The inventory menu of a unit that dropped its last item, with the
\* unit-info panel still open from before the move
C34_Witness ==
    /\ showInventoryMenu
    /\ showUnitInfo
    /\ ValidUnitIndex(unitInfoIndex)
    /\ InventoryUnit.inventory = <<>>
    /\ InventoryUnit.equippedItemIndex = -1
    /\ moveTrail.edits = "drop"

\* --------------------------------------------------------------------------
\* C35: if the units placed by the map descriptor occupy pairwise distinct
\* tiles, then in every reachable state no two units occupy the same tile:
\* ConfirmMove never places the selected unit on a tile held by another unit,
\* and CancelActionMenu never returns it onto one.
\* --------------------------------------------------------------------------

\* The placements of the map file name pairwise distinct tiles
DistinctPlacements(file) ==
    \A i, j \in 1..Len(file.units) :
        (file.units[i].x = file.units[j].x /\ file.units[i].y = file.units[j].y) => i = j

C35_NoSharedTile ==
    DistinctPlacements(mapFile) =>
        \A i, j \in 0..(Len(units) - 1) : UnitPos(i) = UnitPos(j) => i = j

\* The selected unit was moved next to another unit and is shown the action
\* menu there
C35_Witness ==
    /\ DistinctPlacements(mapFile)
    /\ InteractionState = "ActionMenu"
    /\ moveTrail.from # moveTrail.to
    /\ \E j \in 0..(Len(units) - 1) :
          /\ j # selectedUnitIndex
          /\ Manhattan(units[j + 1].x, units[j + 1].y, SelectedUnit.x, SelectedUnit.y) = 1
          /\ Manhattan(units[j + 1].x, units[j + 1].y, moveTrail.from[1], moveTrail.from[2]) = 1

\* --------------------------------------------------------------------------
\* C36: in every reachable state the selected unit, if any, is a player unit
\* with hasMoved = false; hasMoved is only ever set (by Wait) and never
\* cleared within a map session, so a unit that has waited can never be
\* selected, moved or have its inventory edited again until the map is
\* reloaded.
\* --------------------------------------------------------------------------

C36_MovedUnitsAreFinal ==
    /\ [](HasSelectedUnit =>
            /\ SelectedUnit.type = "player"
            /\ ~SelectedUnit.hasMoved)
    /\ [][gameState = "STATE_MAP" =>
            /\ Len(units') = Len(units)
            /\ \A i \in 1..Len(units) :
                  /\ units[i].hasMoved => units'[i] = units[i]
                  /\ (~units[i].hasMoved /\ units'[i].hasMoved) =>
                        /\ WaitCall
                        /\ selectedUnitIndex = i - 1]_vars

\* One unit has waited and another one is selected and moved
C36_Witness ==
    /\ InteractionState = "ActionMenu"
    /\ moveTrail.from # moveTrail.to
    /\ \E i \in 1..Len(units) :
          /\ units[i].hasMoved
          /\ i - 1 # selectedUnitIndex
          /\ units[i].type = "player"

\* --------------------------------------------------------------------------
\* C37: cancellation always unwinds: from every reachable state, each cancel
\* (X) input moves the machine exactly one level up the stack
\* DropConfirm -> InventoryMenu -> ActionMenu -> Selected -> Idle, so at most
\* 4 consecutive cancel inputs reach Idle (no unit selected, no menu or
\* confirmation open, both range sets empty) with the commanded unit back on
\* its pre-move tile and hasMoved still false.
\* --------------------------------------------------------------------------

\* The depth of an interaction state in the stack; Idle is 0
StackLevel(state) ==
    CASE state = "Idle" -> 0
      [] state = "Selected" -> 1
      [] state = "ActionMenu" -> 2
      [] state = "InventoryMenu" -> 3
      [] state = "DropConfirm" -> 4
      [] OTHER -> 5

C37_CancelUnwindsOneLevel ==
    [][LET level == StackLevel(InteractionState)
       IN  \/ /\ level <= 4
              /\ StackLevel(InteractionState') = IF level = 0 THEN 0 ELSE level - 1
              /\ level >= 2 => <<originalUnitX, originalUnitY>> = moveTrail.from
              /\ level \in {3, 4} =>
                    /\ UnitPositions(units') = UnitPositions(units)
                    /\ UNCHANGED <<selectedUnitIndex, originVars>>
              /\ level = 2 =>
                    /\ selectedUnitIndex' = selectedUnitIndex
                    /\ UnitPos(selectedUnitIndex)' = moveTrail.from
              /\ level = 1 =>
                    /\ units' = units
                    /\ moveRangeTiles' = <<>>
                    /\ attackRangeTiles' = <<>>
              /\ level >= 1 => ~units'[selectedUnitIndex + 1].hasMoved
           \/ ~KeyStep("X")]_vars

\* Two levels from the top after an equip: the move was undone and the unit
\* is merely selected again
C37_Witness ==
    /\ InteractionState = "Selected"
    /\ moveTrail.phase = "reverted"
    /\ moveTrail.edits = "equip"
    /\ moveTrail.from # moveTrail.to
    /\ UnitPos(selectedUnitIndex) = moveTrail.from
    /\ ~SelectedUnit.hasMoved

\* --------------------------------------------------------------------------
\* C38: in every reachable state, a unit's equipped item
\* (equippedItemIndex # -1) is a weapon that unit can wield according to
\* CanUnitWieldWeapon, including right after LoadMap equips the first
\* inventory entry by default and after every equip and drop.
\* --------------------------------------------------------------------------

C38_EquippedIsWieldable ==
    \A i \in 1..Len(units) :
        units[i].equippedItemIndex # -1 =>
            CanWieldItem(units[i], units[i].inventory[units[i].equippedItemIndex + 1])

\* --------------------------------------------------------------------------
\* C39: on a map at least as large as the viewport, the cursor tile's screen
\* rectangle lies fully inside the viewport in every reachable state of the
\* map, not only after MoveCursor but also after CancelActionMenu has put the
\* cursor back on the unit's original tile without adjusting the camera.
\* --------------------------------------------------------------------------

MapCoversViewport ==
    /\ mapWidth * ScaledTileSize >= ScreenWidth
    /\ mapHeight * ScaledTileSize >= ScreenHeight

C39_CursorAlwaysInViewport ==
    (gameState = "STATE_MAP" /\ MapCoversViewport) => CursorTileInViewport

====
